---- MODULE Spec2Model ----
(***************************************************************************)
(* Key selection and routing engine of the LLM gateway.                    *)
(*                                                                         *)
(* The key store (table llmApiKey), the round-robin counter store (Redis)  *)
(* and the usage log are the shared state.  KeyManager.selectKey,          *)
(* KeyManager.incrementUsage and RequestRouter.route are the operations.   *)
(* Model names are sequences of characters, so that the prefix matching of *)
(* the model filter is computed, not assumed.  Dates are day numbers: the  *)
(* code compares resetDate with local midnight of the current day.         *)
(***************************************************************************)
EXTENDS Integers, Sequences, FiniteSets, TLC

\* ------------------------------------------------------------------------
\* Bounds of the model
\* ------------------------------------------------------------------------
MaxUsed == 2        \* largest usedToday / dailyLimit drawn in Init
MaxDay == 2         \* last day the clock reaches
MaxCounter == 2     \* cap of a round-robin counter value
MaxPicks == 6       \* length of the recorded run of selectKey calls
MaxLog == 4         \* cap of the usage log length
MaxRoutes == 1      \* route() calls of a behaviour that examines single calls
MaxJobs == 2        \* jobs added to the chat request queue
MaxWaiters == 1     \* waitForJob calls of a behaviour
MaxQueued == 1      \* jobs of a behaviour that follows jobs through the worker
MaxCalls == 2       \* route() calls in flight at once

\* ------------------------------------------------------------------------
\* Values
\* ------------------------------------------------------------------------
KeyIds == {"k1", "k2", "k3"}
Providers == {"openai", "anthropic"}
Priorities == {1, 2}
Strategies == {"exhaust-first", "round-robin"}

\* dailyLimit: number | null
Null == -1

\* requestedModel?: string  -- undefined is a value that is no string
Undefined == <<"undefined">>
EmptyString == <<>>
Star == <<"*">>
Gpt4Star == <<"g", "p", "t", "-", "4", "*">>
Gpt4o == <<"g", "p", "t", "-", "4", "o">>
Gpt4Turbo == <<"g", "p", "t", "-", "4", "-", "t", "u", "r", "b", "o">>
Gpt4oMini == <<"g", "p", "t", "-", "4", "o", "-", "m", "i", "n", "i">>
Gpt35Turbo == <<"g", "p", "t", "-", "3", ".", "5", "-", "t", "u", "r", "b", "o">>
Claude3OpusLatest ==
    <<"c", "l", "a", "u", "d", "e", "-", "3", "-", "o", "p", "u", "s", "-",
      "l", "a", "t", "e", "s", "t">>

\* ------------------------------------------------------------------------
\* State
\* ------------------------------------------------------------------------
VARIABLES
    keys,       \* key store: id -> ApiKeyInfo row
    today,      \* current day (local midnight)
    rrCounter,  \* counter store: <<provider, priority>> -> value, 0 = no key
    strategy,   \* KeyManager.strategy
    sel,        \* the last selectKey call: context, store before, result
    picks,      \* recorded run of consecutive selectKey calls
    usageLog,   \* usage log, append-only
    rt,         \* the last route() call: request, outcome, attempts
    queue,      \* the chat request queue: jobs, events in flight, waiters
    calls,      \* route() calls in flight on several router instances
    locks       \* advisory key locks: the lock keys set, what each caller believes

vars == <<keys, today, rrCounter, strategy, sel, picks, usageLog, rt, queue,
          calls, locks>>

\* ------------------------------------------------------------------------
\* String helpers (JavaScript String.prototype)
\* ------------------------------------------------------------------------
startsWith(s, p) ==
    /\ Len(p) <= Len(s)
    /\ \A i \in 1..Len(p) : s[i] = p[i]

endsWith(s, c) == Len(s) >= 1 /\ s[Len(s)] = c

\* s.slice(0, -1)
sliceDropLast(s) == IF Len(s) = 0 THEN <<>> ELSE SubSeq(s, 1, Len(s) - 1)

\* JavaScript truthiness of string | undefined
Truthy(m) == m # Undefined /\ m # EmptyString

\* ------------------------------------------------------------------------
\* Sequence helpers
\* ------------------------------------------------------------------------
Range(s) == {s[i] : i \in 1..Len(s)}

RECURSIVE SelectSeqIds(_, _)
SelectSeqIds(s, S) ==
    IF s = <<>> THEN <<>>
    ELSE IF Head(s) \in S THEN <<Head(s)>> \o SelectSeqIds(Tail(s), S)
    ELSE SelectSeqIds(Tail(s), S)

\* all orders of the rows of the table (the order the database yields rows
\* that compare equal under ORDER BY is not specified)
Orders == {o \in [1..Cardinality(KeyIds) -> KeyIds] :
              \A i, j \in 1..Cardinality(KeyIds) : i # j => o[i] # o[j]}

\* ------------------------------------------------------------------------
\* Key store queries (Prisma client)
\* ------------------------------------------------------------------------
\* { ...a, ...b }: a property of b replaces the property of the same name
Spread(a, b) ==
    [p \in (DOMAIN a) \cup (DOMAIN b) |-> IF p \in DOMAIN b THEN b[p] ELSE a[p]]

NoProps == <<>>

\* the `where` object of selectKey: property -> set of admitted values
whereConditions(ctx) ==
    Spread(Spread(Spread(
        [enabled |-> {TRUE}],
        IF ctx.allowedProviders # {}
            THEN [provider |-> ctx.allowedProviders] ELSE NoProps),
        IF ctx.allowedPriorities # {}
            THEN [priority |-> ctx.allowedPriorities] ELSE NoProps),
        IF ctx.requestedProvider # "auto"
            THEN [provider |-> {ctx.requestedProvider}] ELSE NoProps)

matchesWhere(row, where) == \A p \in DOMAIN where : row[p] \in where[p]

\* orderBy: [{ priority: 'asc' }, { usedToday: 'asc' }]
rowBefore(a, b) ==
    \/ a.priority < b.priority
    \/ a.priority = b.priority /\ a.usedToday < b.usedToday

RECURSIVE insertOrdered(_, _)
insertOrdered(s, r) ==
    IF s = <<>> THEN <<r>>
    ELSE IF rowBefore(r, Head(s)) THEN <<r>> \o s
    ELSE <<Head(s)>> \o insertOrdered(Tail(s), r)

RECURSIVE orderBy(_)
orderBy(s) ==
    IF s = <<>> THEN <<>>
    ELSE insertOrdered(orderBy(SubSeq(s, 1, Len(s) - 1)), s[Len(s)])

RECURSIVE rowsOf(_, _)
rowsOf(store, ids) ==
    IF ids = <<>> THEN <<>> ELSE <<store[Head(ids)]>> \o rowsOf(store, Tail(ids))

\* prisma.llmApiKey.findMany(whereConditions); ord is the order in which
\* the table yields rows that compare equal under orderBy
findMany(store, ctx, ord) ==
    LET where == whereConditions(ctx)
        hit == {id \in KeyIds : matchesWhere(store[id], where)}
    IN  orderBy(rowsOf(store, SelectSeqIds(ord, hit)))

\* variant of updateMany that leaves out the where clause
updateMany_All(store, ids, day) ==
    [id \in KeyIds |->
        IF ids # {} THEN [store[id] EXCEPT !.usedToday = 0, !.resetDate = day]
        ELSE store[id]]

\* prisma.llmApiKey.updateMany({ where: { id: { in } }, data: { usedToday: 0, resetDate } })
updateMany(store, ids, day) ==
    [id \in KeyIds |->
        IF id \in ids THEN [store[id] EXCEPT !.usedToday = 0, !.resetDate = day]
        ELSE store[id]]

\* ------------------------------------------------------------------------
\* KeyManager
\* ------------------------------------------------------------------------
RECURSIVE resetRows(_, _)
resetRows(rows, day) ==
    IF rows = <<>> THEN <<>>
    ELSE <<IF Head(rows).resetDate < day
              THEN [Head(rows) EXCEPT !.usedToday = 0, !.resetDate = day]
              ELSE Head(rows)>> \o resetRows(Tail(rows), day)

\* variant of resetDailyUsageIfNeeded that skips the batch update of the store
resetDailyUsageIfNeeded_NoUpdate(rows, day) ==
    [keysToReset |-> {}, updatedKeys |-> resetRows(rows, day)]

resetDailyUsageIfNeeded(rows, day) ==
    [keysToReset |-> {rows[i].id : i \in {j \in 1..Len(rows) : rows[j].resetDate < day}},
     updatedKeys |-> resetRows(rows, day)]

\* variant of modelAllowed that compares against the pattern with its '*' kept
modelAllowed_NoSlice(allowedModels, requestedModel) ==
    \/ Len(allowedModels) = 0
    \/ \E i \in 1..Len(allowedModels) :
          LET allowed == allowedModels[i]
          IN  \/ allowed = requestedModel
              \/ allowed = Star
              \/ /\ endsWith(allowed, "*")
                 /\ startsWith(requestedModel, allowed)

\* allowed.endsWith('*') && requestedModel.startsWith(allowed.slice(0, -1))
modelAllowed(allowedModels, requestedModel) ==
    \/ Len(allowedModels) = 0
    \/ \E i \in 1..Len(allowedModels) :
          LET allowed == allowedModels[i]
          IN  \/ allowed = requestedModel
              \/ allowed = Star
              \/ /\ endsWith(allowed, "*")
                 /\ startsWith(requestedModel, sliceDropLast(allowed))

\* variant of quotaExhausted with > in place of >=
quotaExhausted_Strict(key) == key.dailyLimit # Null /\ key.usedToday > key.dailyLimit

quotaExhausted(key) == key.dailyLimit # Null /\ key.usedToday >= key.dailyLimit

keyPasses(key, requestedModel) ==
    IF quotaExhausted(key) THEN FALSE
    ELSE IF Truthy(requestedModel)
         THEN modelAllowed(key.allowedModels, requestedModel)
         ELSE TRUE

RECURSIVE filterEligibleKeys(_, _)
filterEligibleKeys(rows, requestedModel) ==
    IF rows = <<>> THEN <<>>
    ELSE IF keyPasses(Head(rows), requestedModel)
         THEN <<Head(rows)>> \o filterEligibleKeys(Tail(rows), requestedModel)
         ELSE filterEligibleKeys(Tail(rows), requestedModel)

\* grouped.get(key.priority) || []; push; grouped.set
RECURSIVE addToGroups(_, _)
addToGroups(groups, key) ==
    IF groups = <<>> THEN <<[priority |-> key.priority, keys |-> <<key>>]>>
    ELSE IF Head(groups).priority = key.priority
         THEN <<[Head(groups) EXCEPT !.keys = Append(@, key)]>> \o Tail(groups)
         ELSE <<Head(groups)>> \o addToGroups(Tail(groups), key)

RECURSIVE collectGroups(_, _)
collectGroups(groups, rows) ==
    IF rows = <<>> THEN groups
    ELSE collectGroups(addToGroups(groups, Head(rows)), Tail(rows))

\* variant of insertGroup that orders the groups by descending priority number
RECURSIVE insertGroup_Descending(_, _)
insertGroup_Descending(s, g) ==
    IF s = <<>> THEN <<g>>
    ELSE IF Head(s).priority - g.priority < 0 THEN <<g>> \o s
    ELSE <<Head(s)>> \o insertGroup_Descending(Tail(s), g)

\* [...grouped.entries()].sort((a, b) => a[0] - b[0])
RECURSIVE insertGroup(_, _)
insertGroup(s, g) ==
    IF s = <<>> THEN <<g>>
    ELSE IF g.priority - Head(s).priority < 0 THEN <<g>> \o s
    ELSE <<Head(s)>> \o insertGroup(Tail(s), g)

RECURSIVE sortGroups(_)
sortGroups(s) ==
    IF s = <<>> THEN <<>>
    ELSE insertGroup(sortGroups(SubSeq(s, 1, Len(s) - 1)), s[Len(s)])

groupKeysByPriority(rows) == sortGroups(collectGroups(<<>>, rows))

\* remaining quota as a number or Infinity
remainingQuota(key) ==
    IF key.dailyLimit = Null THEN [inf |-> TRUE, n |-> 0]
    ELSE [inf |-> FALSE, n |-> key.dailyLimit - key.usedToday]

\* variant of compareRemaining that orders by ascending remaining quota
compareRemaining_Ascending(a, b) ==
    LET aRemaining == remainingQuota(a)
        bRemaining == remainingQuota(b)
    IN  IF aRemaining.inf /\ bRemaining.inf THEN 0
        ELSE IF bRemaining.inf THEN -1
        ELSE IF aRemaining.inf THEN 1
        ELSE aRemaining.n - bRemaining.n

\* bRemaining - aRemaining as Array.prototype.sort reads it: Infinity - Infinity
\* is NaN, which sort takes as +0
compareRemaining(a, b) ==
    LET aRemaining == remainingQuota(a)
        bRemaining == remainingQuota(b)
    IN  IF aRemaining.inf /\ bRemaining.inf THEN 0
        ELSE IF bRemaining.inf THEN 1
        ELSE IF aRemaining.inf THEN -1
        ELSE bRemaining.n - aRemaining.n

\* Array.prototype.sort is stable
RECURSIVE insertByRemaining(_, _)
insertByRemaining(s, k) ==
    IF s = <<>> THEN <<k>>
    ELSE IF compareRemaining(k, Head(s)) < 0 THEN <<k>> \o s
    ELSE <<Head(s)>> \o insertByRemaining(Tail(s), k)

RECURSIVE sortByRemaining(_)
sortByRemaining(s) ==
    IF s = <<>> THEN <<>>
    ELSE insertByRemaining(sortByRemaining(SubSeq(s, 1, Len(s) - 1)), s[Len(s)])

selectExhaustFirst(rows) == sortByRemaining(rows)[1]

\* variant of getNextRoundRobinIndex that leaves the counter as it was
getNextRoundRobinIndex_NoIncr(counters, provider, priority, totalKeys) ==
    LET current == counters[<<provider, priority>>] + 1
    IN  [index |-> (current - 1) % totalKeys, counters |-> counters]

\* redis.incr(key); redis.expire(key, 3600); (current - 1) % totalKeys
getNextRoundRobinIndex(counters, provider, priority, totalKeys) ==
    LET current == counters[<<provider, priority>>] + 1
    IN  [index |-> (current - 1) % totalKeys,
         counters |-> [counters EXCEPT ![<<provider, priority>>] = current]]

\* keys[index] with a 0-based index
selectRoundRobin(rows, priority, counters) ==
    LET provider == rows[1].provider
        nxt == getNextRoundRobinIndex(counters, provider, priority, Len(rows))
    IN  [key |-> rows[nxt.index + 1], index |-> nxt.index, counters |-> nxt.counters]

NoKey == [id |-> "none"]

selectKeyFromGroup(rows, priority, strat, counters) ==
    IF Len(rows) = 0 THEN [key |-> NoKey, index |-> -1, counters |-> counters]
    ELSE IF strat = "exhaust-first"
         THEN [key |-> selectExhaustFirst(rows), index |-> -1, counters |-> counters]
         ELSE selectRoundRobin(rows, priority, counters)

\* for (const [priority, priorityKeys] of keysByPriority) ... if (selectedKey) return
RECURSIVE selectFromGroups(_, _, _)
selectFromGroups(groups, strat, counters) ==
    IF groups = <<>>
    THEN [key |-> NoKey, index |-> -1, counters |-> counters, group |-> <<>>]
    ELSE LET g == Head(groups)
             r == selectKeyFromGroup(g.keys, g.priority, strat, counters)
         IN  IF r.key.id # NoKey.id
             THEN [key |-> r.key, index |-> r.index, counters |-> r.counters,
                   group |-> g.keys]
             ELSE selectFromGroups(Tail(groups), strat, r.counters)

idsOf(rows) == [i \in 1..Len(rows) |-> rows[i].id]

\* variant of resolveModel that always takes the key's defaultModel
resolveModel_Default(requestedModel, key) == key.defaultModel

\* context.requestedModel || selectedKey.defaultModel
resolveModel(requestedModel, key) ==
    IF Truthy(requestedModel) THEN requestedModel ELSE key.defaultModel

\* KeyManager.selectKey after the candidate query returned `found`: the
\* result, the store and the counters it leaves
selectKeyFound(found, store, counters, ctx, day, strat) ==
    IF Len(found) = 0
    THEN [outcome |-> "NoEligibleKey", gate |-> 1, key |-> NoKey,
          resolvedModel |-> Undefined, store |-> store, counters |-> counters,
          listing |-> <<>>, eligible |-> <<>>, group |-> <<>>, index |-> -1]
    ELSE
    LET reset == resetDailyUsageIfNeeded(found, day)
        store2 == updateMany(store, reset.keysToReset, day)
        eligibleKeys == filterEligibleKeys(reset.updatedKeys, ctx.requestedModel)
    IN  IF Len(eligibleKeys) = 0
        THEN [outcome |-> "NoEligibleKey", gate |-> 2, key |-> NoKey,
              resolvedModel |-> Undefined, store |-> store2,
              counters |-> counters, listing |-> idsOf(found),
              eligible |-> <<>>, group |-> <<>>, index |-> -1]
        ELSE
        LET pick == selectFromGroups(groupKeysByPriority(eligibleKeys),
                                     strat, counters)
        IN  IF pick.key.id # NoKey.id
            THEN [outcome |-> "ok", gate |-> 0, key |-> pick.key,
                  resolvedModel |-> resolveModel(ctx.requestedModel, pick.key),
                  store |-> store2, counters |-> pick.counters,
                  listing |-> idsOf(found), eligible |-> idsOf(eligibleKeys),
                  group |-> idsOf(pick.group), index |-> pick.index]
            ELSE [outcome |-> "NoEligibleKey", gate |-> 3, key |-> NoKey,
                  resolvedModel |-> Undefined, store |-> store2,
                  counters |-> pick.counters, listing |-> idsOf(found),
                  eligible |-> idsOf(eligibleKeys), group |-> <<>>,
                  index |-> -1]

\* KeyManager.selectKey(context)
selectKey(store, counters, ctx, ord, day, strat) ==
    selectKeyFound(findMany(store, ctx, ord), store, counters, ctx, day, strat)

\* variant of incrementUsage that counts a dispatch twice
incrementUsage_Twice(store, keyId) ==
    [store EXCEPT ![keyId].usedToday = @ + 2]

\* KeyManager.incrementUsage: usedToday: { increment: 1 }
incrementUsage(store, keyId) ==
    [store EXCEPT ![keyId].usedToday = @ + 1]

\* ------------------------------------------------------------------------
\* Provider adapters
\* ------------------------------------------------------------------------
\* supported.split('-')[0]
RECURSIVE firstDashSegment(_)
firstDashSegment(s) ==
    IF s = <<>> \/ Head(s) = "-" THEN <<>>
    ELSE <<Head(s)>> \o firstDashSegment(Tail(s))

\* the entries of supportedModels that the model names used here can meet
supportedModels(provider) ==
    IF provider = "openai" THEN <<Gpt4Turbo, Gpt4o, Gpt4oMini, Gpt35Turbo>>
    ELSE <<Claude3OpusLatest>>

\* OpenAIAdapter overrides validateModel; AnthropicAdapter inherits it (its
\* list holds no '*' entry, so the pattern branch never applies)
validateModel(provider, model) ==
    \E i \in 1..Len(supportedModels(provider)) :
        LET supported == supportedModels(provider)[i]
        IN  IF provider = "openai"
            THEN model = supported \/ startsWith(model, firstDashSegment(supported))
            ELSE supported = model \/ startsWith(model, supported)

\* the status of the ProviderError adapter.chat throws; "ok" is a response
statusOf(outcome) ==
    IF outcome = "500" THEN 500
    ELSE IF outcome = "429" THEN 429
    ELSE IF outcome = "401" THEN 401
    ELSE 400

\* ------------------------------------------------------------------------
\* UsageTracker
\* ------------------------------------------------------------------------
\* variant of logUsage that lets the failure of the sink escape
logUsage_Rethrow(log, entry, sinkOk) ==
    [log |-> IF sinkOk THEN Append(log, entry) ELSE log, threw |-> ~sinkOk]

\* UsageTracker.logUsage(entry): prisma.usageLog.create inside try/catch;
\* sinkOk tells whether the create succeeds
logUsage(log, entry, sinkOk) ==
    [log |-> IF sinkOk THEN Append(log, entry) ELSE log, threw |-> FALSE]

\* ------------------------------------------------------------------------
\* RequestRouter
\* ------------------------------------------------------------------------
maxRetries == 3
retryDelayMs == 1000

\* variant of pow2 that doubles its argument
pow2_Double(n) == 2 * n

RECURSIVE pow2(_)
pow2(n) == IF n = 0 THEN 1 ELSE 2 * pow2(n - 1)

\* an LLMGatewayError (or subclass) with its code and statusCode
GatewayError(code, status) == [code |-> code, status |-> status, structured |-> TRUE]
\* an Error that is no LLMGatewayError (a rejected store call)
PlainError(message) == [code |-> message, status |-> 0, structured |-> FALSE]
NoError == [code |-> "none", status |-> 0, structured |-> FALSE]

\* variant of isNonRetryableError that stops on every 4xx, 429 included
isNonRetryableError_All4xx(error) ==
    error.structured /\ error.status >= 400 /\ error.status < 500

\* variant of isNonRetryableError that takes status 400 for retryable
isNonRetryableError_Above400(error) ==
    IF error.structured
    THEN IF error.status > 400 /\ error.status < 500 THEN error.status # 429 ELSE FALSE
    ELSE FALSE

isNonRetryableError(error) ==
    IF error.structured
    THEN IF error.status >= 400 /\ error.status < 500 THEN error.status # 429 ELSE FALSE
    ELSE FALSE

\* the local state of one route() call before its first attempt; log is the
\* usage log, trace and sleeps record the attempts made and the delays slept
RouteStart(store, counters, log) ==
    [store |-> store, counters |-> counters, log |-> log, attemptedKeyIds |-> {},
     lastError |-> NoError, selectCalls |-> 0, chatCalls |-> 0, chatKeys |-> <<>>,
     sleeps |-> <<>>,
     trace |-> <<>>, eligible |-> <<>>, group |-> <<>>]

\* variant of routeCatch that remembers the first error only
routeCatch_KeepFirst(attempt, st, error) ==
    LET st2 == [st EXCEPT !.lastError = IF @ = NoError THEN error ELSE @,
                          !.trace = Append(@, [attempt |-> attempt, error |-> error])]
    IN  IF isNonRetryableError(error)
        THEN [stop |-> TRUE, st |-> st2]
        ELSE [stop |-> FALSE,
              st |-> IF attempt < maxRetries - 1
                     THEN [st2 EXCEPT !.sleeps =
                              Append(@, [after |-> attempt,
                                         ms |-> retryDelayMs * pow2(attempt)])]
                     ELSE st2]

\* catch (error): remember it, stop on a non-retryable one, else back off
\* before the next attempt
routeCatch(attempt, st, error) ==
    LET st2 == [st EXCEPT !.lastError = error,
                          !.trace = Append(@, [attempt |-> attempt, error |-> error])]
    IN  IF isNonRetryableError(error)
        THEN [stop |-> TRUE, st |-> st2]
        ELSE [stop |-> FALSE,
              st |-> IF attempt < maxRetries - 1
                     THEN [st2 EXCEPT !.sleeps =
                              Append(@, [after |-> attempt,
                                         ms |-> retryDelayMs * pow2(attempt)])]
                     ELSE st2]

\* what the environment does at an attempt: "db" the key store rejects the
\* candidate query, "incr" the adapter answers and the usage update rejects,
\* "ok" the adapter answers, any other value is the status the adapter fails with
outcomeAt(outs, attempt) == IF attempt + 1 <= Len(outs) THEN outs[attempt + 1] ELSE "ok"

\* variant of routeSuccess that writes no usage log entry
routeSuccess_NoLog(r, attempt, st, sinkOk) ==
    [done |-> TRUE,
     st |-> [st EXCEPT !.store = incrementUsage(@, r.key.id),
                       !.trace = Append(@, [attempt |-> attempt, error |-> NoError])],
     keyId |-> r.key.id, provider |-> r.key.provider, model |-> r.resolvedModel]

\* the successful end of an attempt: usage counted and logged, response returned
routeSuccess(r, attempt, st, sinkOk) ==
    LET lg == logUsage(st.log,
                       [keyId |-> r.key.id, provider |-> r.key.provider,
                        model |-> r.resolvedModel, success |-> TRUE],
                       sinkOk)
        st4 == [st EXCEPT !.store = incrementUsage(@, r.key.id), !.log = lg.log]
    IN  IF lg.threw
        THEN [done |-> FALSE, st |-> st4, error |-> PlainError("usage log")]
        ELSE [done |-> TRUE,
              st |-> [st4 EXCEPT !.trace =
                         Append(@, [attempt |-> attempt, error |-> NoError])],
              keyId |-> r.key.id, provider |-> r.key.provider,
              model |-> r.resolvedModel]

\* variant of alreadyAttempted that never finds a key attempted
alreadyAttempted_Never(attemptedKeyIds, keyId) == FALSE

\* attemptedKeyIds.has(selection.key.id)
alreadyAttempted(attemptedKeyIds, keyId) == keyId \in attemptedKeyIds

\* the try block of one attempt once selectKey has answered r: reject a key
\* attempted before, validate the model, call the adapter, count the usage
routeTryWith(r, attempt, st, outs, sinkOk) ==
    LET st1 == [st EXCEPT !.store = r.store, !.counters = r.counters,
                          !.selectCalls = @ + 1,
                          !.eligible = r.eligible, !.group = r.group]
        st2 == [st1 EXCEPT !.attemptedKeyIds = @ \cup {r.key.id}]
        st3 == [st2 EXCEPT !.chatCalls = @ + 1, !.chatKeys = Append(@, r.key.id)]
    IN  IF outcomeAt(outs, attempt) = "db"
        THEN [done |-> FALSE, st |-> [st EXCEPT !.selectCalls = @ + 1],
              error |-> PlainError("key store")]
        ELSE IF r.outcome # "ok"
        THEN [done |-> FALSE, st |-> st1, error |-> GatewayError("NO_ELIGIBLE_KEY", 429)]
        ELSE IF alreadyAttempted(st.attemptedKeyIds, r.key.id)
        THEN [done |-> FALSE, st |-> st1, error |-> GatewayError("PROVIDER_ERROR", 503)]
        ELSE IF ~validateModel(r.key.provider, r.resolvedModel)
        THEN [done |-> FALSE, st |-> st2,
              error |-> GatewayError("MODEL_NOT_SUPPORTED", 400)]
        ELSE IF outcomeAt(outs, attempt) = "incr"
        THEN [done |-> FALSE, st |-> st3, error |-> PlainError("key store")]
        ELSE IF outcomeAt(outs, attempt) # "ok"
        THEN [done |-> FALSE, st |-> st3,
              error |-> GatewayError("PROVIDER_ERROR", statusOf(outcomeAt(outs, attempt)))]
        ELSE routeSuccess(r, attempt, st3, sinkOk)

routeTry(attempt, st, ctx, outs, sinkOk, ord, day, strat) ==
    routeTryWith(selectKey(st.store, st.counters, ctx, ord, day, strat),
                 attempt, st, outs, sinkOk)

\* variant of attemptsLeft that allows one attempt more
attemptsLeft_OneMore(attempt) == attempt < maxRetries + 1

\* the loop condition: attempt < this.maxRetries
attemptsLeft(attempt) == attempt < maxRetries

\* for (let attempt = 0; attempt < this.maxRetries; attempt++) { try ... catch ... }
RECURSIVE routeLoop(_, _, _, _, _, _, _, _)
routeLoop(attempt, st, ctx, outs, sinkOk, ord, day, strat) ==
    IF ~attemptsLeft(attempt) THEN [done |-> FALSE, st |-> st]
    ELSE LET t == routeTry(attempt, st, ctx, outs, sinkOk, ord, day, strat)
         IN  IF t.done THEN t
             ELSE LET c == routeCatch(attempt, t.st, t.error)
                  IN  IF c.stop THEN [done |-> FALSE, st |-> c.st]
                      ELSE routeLoop(attempt + 1, c.st, ctx, outs, sinkOk, ord, day, strat)

\* what route() throws after the loop: lastError instanceof LLMGatewayError ?
\* lastError : new NoEligibleKeyError
thrownError(lastError) ==
    IF lastError.structured THEN lastError ELSE GatewayError("NO_ELIGIBLE_KEY", 429)

\* the failure entry route() logs after the loop
failureEntry(ctx) ==
    [keyId |-> "unknown",
     provider |-> IF ctx.requestedProvider = "auto" THEN "openai"
                  ELSE ctx.requestedProvider,
     model |-> IF Truthy(ctx.requestedModel) THEN ctx.requestedModel
               ELSE <<"u", "n", "k", "n", "o", "w", "n">>,
     success |-> FALSE]

\* variant of routeEnd that throws lastError whatever it is
routeEnd_ThrowLast(end, ctx, sinkOk) ==
    IF end.done
    THEN [outcome |-> "ok", error |-> NoError, keyId |-> end.keyId,
          provider |-> end.provider, model |-> end.model, st |-> end.st]
    ELSE [outcome |-> "error", error |-> end.st.lastError,
          keyId |-> "unknown", provider |-> "none", model |-> Undefined,
          st |-> [end.st EXCEPT !.log = logUsage(@, failureEntry(ctx), sinkOk).log]]

\* after the loop: the response of the attempt that succeeded, or the failure
\* logged and the last error thrown
routeEnd(end, ctx, sinkOk) ==
    IF end.done
    THEN [outcome |-> "ok", error |-> NoError, keyId |-> end.keyId,
          provider |-> end.provider, model |-> end.model, st |-> end.st]
    ELSE [outcome |-> "error",
          error |-> IF logUsage(end.st.log, failureEntry(ctx), sinkOk).threw
                    THEN PlainError("usage log")
                    ELSE thrownError(end.st.lastError),
          keyId |-> "unknown", provider |-> "none", model |-> Undefined,
          st |-> [end.st EXCEPT !.log = logUsage(@, failureEntry(ctx), sinkOk).log]]

\* RequestRouter.route(request): the outcome, the store, the counters and the
\* usage log it leaves
route(store, counters, log, request, outs, sinkOk, ord, day, strat) ==
    routeEnd(routeLoop(0, RouteStart(store, counters, log), request, outs, sinkOk,
                       ord, day, strat),
             request, sinkOk)

\* ------------------------------------------------------------------------
\* Inputs: key rows and routing contexts
\* ------------------------------------------------------------------------
Row(id, provider, priority, enabled, allowedModels, dailyLimit, usedToday, resetDate) ==
    [id |-> id, provider |-> provider, priority |-> priority, enabled |-> enabled,
     allowedModels |-> allowedModels,
     defaultModel |-> IF provider = "openai" THEN Gpt4o ELSE Claude3OpusLatest,
     dailyLimit |-> dailyLimit, usedToday |-> usedToday, resetDate |-> resetDate]

Limits == {Null} \cup (1..MaxUsed)

ModelLists == {<<>>, <<Star>>, <<Gpt4Star>>, <<Gpt4o>>, <<Gpt35Turbo, Gpt4Star>>}

RequestedModels == {Undefined, EmptyString, Gpt4o, Gpt4Turbo, Gpt4oMini, Gpt35Turbo}

\* rows that differ in what the candidate query reads
QueryRows(id, usedToday) ==
    {Row(id, pr, pri, en, <<>>, Null, usedToday, 1) :
        pr \in Providers, pri \in Priorities, en \in BOOLEAN}

\* rows that differ in quota and reset date
QuotaRows(id, provider, priority) ==
    {Row(id, provider, priority, TRUE, <<>>, lim[1], lim[2], rd) :
        lim \in Limits \X (0..MaxUsed), rd \in {0, 1}}

\* rows that differ in the models they allow
ModelRows(id, provider) ==
    {Row(id, provider, 1, TRUE, am, q[1], 1, q[2]) :
        am \in ModelLists, q \in {<<Null, 1>>, <<1, 0>>}}

StoreOf(r1, r2, r3) == [id \in KeyIds |-> IF id = "k1" THEN r1 ELSE IF id = "k2" THEN r2 ELSE r3]

QueryStores ==
    {StoreOf(r1, r2, r3) :
        r1 \in QueryRows("k1", 0), r2 \in QueryRows("k2", 1),
        r3 \in {Row("k3", "anthropic", 2, TRUE, <<>>, Null, MaxUsed, 1)}}

QuotaStores ==
    {StoreOf(r1, r2, r3) :
        r1 \in QuotaRows("k1", "openai", 1),
        r2 \in {Row("k2", "anthropic", 1, TRUE, <<>>, lim, u, 1) :
                   lim \in {Null, MaxUsed}, u \in {1, MaxUsed}},
        r3 \in {Row("k3", "openai", pri, TRUE, <<>>, Null, 0, 1) :
                   pri \in Priorities}}

ModelStores ==
    {StoreOf(r1, r2, r3) :
        r1 \in ModelRows("k1", "openai"), r2 \in ModelRows("k2", "openai"),
        r3 \in {Row("k3", "anthropic", 2, TRUE, <<Gpt4Star>>, Null, 0, 1)}}

RoundRobinStores ==
    {StoreOf(Row("k1", "openai", 1, TRUE, <<>>, Null, 0, 1),
             Row("k2", pr, 1, en, <<>>, Null, 0, 1),
             Row("k3", "openai", 2, TRUE, <<>>, Null, 0, 1)) :
        pr \in Providers, en \in BOOLEAN}
    \cup {StoreOf(Row("k1", "openai", 1, TRUE, <<Gpt4Star>>, 1, 1, 0),
                  Row("k2", "anthropic", 1, TRUE, <<>>, MaxUsed, 1, 1),
                  Row("k3", "openai", 1, TRUE, <<>>, Null, MaxUsed, rd)) :
             rd \in {0, 1}}

InitStores == QueryStores \cup QuotaStores \cup ModelStores

Context(model, provider, allowedProviders, allowedPriorities) ==
    [requestedModel |-> model, requestedProvider |-> provider,
     allowedProviders |-> allowedProviders, allowedPriorities |-> allowedPriorities]

Contexts ==
    {Context(m, p, ap, apri) :
        m \in {Undefined}, p \in {"auto"} \cup Providers,
        ap \in {{}, {"openai"}, {"anthropic"}}, apri \in {{}, {1}, {2}}}
    \cup {Context(m, "auto", {}, {}) : m \in RequestedModels}
    \cup {Context(Gpt4o, p, {}, apri) : p \in Providers, apri \in {{}, {1}}}

CounterKeys == Providers \X Priorities

NoSel ==
    [outcome |-> "none", gate |-> 0, key |-> NoKey, resolvedModel |-> Undefined,
     listing |-> <<>>, eligible |-> <<>>, group |-> <<>>, index |-> -1,
     ctx |-> Context(Undefined, "auto", {}, {}), today |-> 0,
     before |-> <<>>, countersBefore |-> <<>>]

NoRoute == [outcome |-> "none"]

\* the callers that may take an advisory key lock, and the keys they lock
Callers == {"w1", "w2", "w3"}
LockKeys == {"k1", "k2"}

\* no lock key is set in the counter store and no caller has acquired a lock;
\* set[id] is "free" or the caller whose SET created the lock key, acquired is
\* what the callers were told, last is the latest releaseKeyLock
NoLocks ==
    [set |-> [id \in LockKeys |-> "free"],
     acquired |-> [c \in Callers |-> {}],
     last |-> [by |-> "none", key |-> "none", removed |-> "free"]]

\* no route() call in flight
NoCalls == [before |-> <<>>, list |-> <<>>]

\* the queue before any job is added
NoQueue == [jobs |-> <<>>, events |-> <<>>, waiters |-> <<>>, uuids |-> 0]

\* ------------------------------------------------------------------------
\* Initial states
\* ------------------------------------------------------------------------
Init ==
    /\ \/ strategy = "exhaust-first" /\ keys \in InitStores
       \/ strategy = "round-robin" /\ keys \in RoundRobinStores
    /\ today = 1
    /\ rrCounter = [ck \in CounterKeys |-> 0]
    /\ sel = NoSel
    /\ picks = <<>>
    /\ usageLog = <<>>
    /\ rt = NoRoute
    /\ queue = NoQueue
    /\ calls = NoCalls
    /\ locks = NoLocks

\* ------------------------------------------------------------------------
\* Operations
\* ------------------------------------------------------------------------
SelRecord(r, ctx) ==
    [outcome |-> r.outcome, gate |-> r.gate, key |-> r.key,
     resolvedModel |-> r.resolvedModel, listing |-> r.listing,
     eligible |-> r.eligible, group |-> r.group, index |-> r.index,
     ctx |-> ctx, today |-> today, before |-> keys, countersBefore |-> rrCounter]

\* one call of KeyManager.selectKey(context)
SelectKeyCall(ctx, cap) ==
    \E found \in {findMany(keys, ctx, ord) : ord \in Orders} :
        \E r \in {selectKeyFound(found, keys, rrCounter, ctx, today, strategy)} :
            /\ \A ck \in CounterKeys : r.counters[ck] <= cap
            /\ keys' = r.store
            /\ rrCounter' = r.counters
            /\ sel' = SelRecord(r, ctx)

SelectKey ==
    /\ sel = NoSel
    /\ \E ctx \in Contexts : SelectKeyCall(ctx, MaxCounter)
    /\ UNCHANGED <<locks, calls, queue, today, strategy, picks, usageLog, rt>>

\* the caller takes the result (or the error) of the call
Deliver ==
    /\ sel # NoSel
    /\ sel' = NoSel
    /\ UNCHANGED <<locks, calls, queue, keys, today, rrCounter, strategy, picks, usageLog, rt>>

\* local midnight passes (between calls: a call is one step)
DayRollover ==
    /\ sel = NoSel
    /\ today < MaxDay
    /\ today' = today + 1
    /\ UNCHANGED <<locks, calls, queue, keys, rrCounter, strategy, sel, picks, usageLog, rt>>

\* a round-robin counter key expires after 3600 s without a call
ExpireCounter ==
    /\ sel = NoSel
    /\ \E ck \in CounterKeys :
          /\ rrCounter[ck] > 0
          /\ rrCounter' = [rrCounter EXCEPT ![ck] = 0]
    /\ UNCHANGED <<locks, calls, queue, keys, today, strategy, sel, picks, usageLog, rt>>

Next == SelectKey \/ Deliver \/ DayRollover \/ ExpireCounter

Spec == Init /\ [][Next]_vars

\* ------------------------------------------------------------------------
\* A run of consecutive selectKey calls under round-robin
\* ------------------------------------------------------------------------
RunStores ==
    {StoreOf(Row("k1", pr, 1, TRUE, <<>>, Null, 1, rd),
             Row("k2", "anthropic", 1, TRUE, <<>>, Null, 0, 1),
             Row("k3", "openai", pri, TRUE, <<>>, Null, MaxUsed, 1)) :
        pr \in Providers, rd \in {0, 1}, pri \in Priorities}

RunContexts ==
    {Context(Undefined, "auto", {}, {}), Context(Undefined, "openai", {}, {})}

InitRun ==
    /\ keys \in RunStores
    /\ today = 1
    /\ \E c \in 0..MaxCounter : rrCounter = [ck \in CounterKeys |-> c]
    /\ strategy = "round-robin"
    /\ sel = NoSel
    /\ picks = <<>>
    /\ usageLog = <<>>
    /\ rt = NoRoute
    /\ queue = NoQueue
    /\ calls = NoCalls
    /\ locks = NoLocks

\* what a run records of one call
PickOf(op, ok, keyId, group, index) ==
    [op |-> op, ok |-> ok, key |-> keyId, group |-> group, index |-> index]

\* selectKey called right after the previous call of the run
SelectKeyRun ==
    /\ Len(picks) < MaxPicks
    /\ \E ctx \in RunContexts : SelectKeyCall(ctx, MaxCounter + MaxPicks)
    /\ picks' = Append(picks, PickOf("selectKey", sel'.outcome = "ok", sel'.key.id,
                                     sel'.group, sel'.index))
    /\ UNCHANGED <<locks, calls, queue, today, strategy, usageLog, rt>>

NextRun == SelectKeyRun

SpecRun == InitRun /\ [][NextRun]_vars

\* ------------------------------------------------------------------------
\* A sequence of route() calls with no other activity
\* ------------------------------------------------------------------------
RouteStores ==
    {StoreOf(Row("k1", "openai", 1, TRUE, <<>>, lim1, 0, 1),
             Row("k2", "openai", 1, TRUE, <<>>, lim2, u2, 1),
             Row("k3", "anthropic", 2, TRUE, <<>>, Null, 0, 1)) :
        lim1 \in {Null, MaxUsed}, lim2 \in {Null, MaxUsed}, u2 \in {0, 1}}

RouteRequests ==
    {Context(Undefined, "auto", {}, {}), Context(Undefined, "anthropic", {}, {})}

\* outcomes of the adapter at attempts 0 .. maxRetries-1: it answers at once,
\* or fails with status 500 once and answers the retry
RouteOutcomes == {<<"ok", "ok", "ok">>, <<"500", "ok", "ok">>}

InitRoute ==
    /\ keys \in RouteStores
    /\ today = 1
    /\ \E c \in 0..1 : rrCounter = [ck \in CounterKeys |-> c]
    /\ strategy \in Strategies
    /\ sel = NoSel
    /\ picks = <<>>
    /\ usageLog = <<>>
    /\ rt = NoRoute
    /\ queue = NoQueue
    /\ calls = NoCalls
    /\ locks = NoLocks

\* one call of RequestRouter.route(request), with the adapter outcomes drawn
\* from `outcomes` and the state of the usage sink from `sinks`
RouteCall(req, outcomes, sinks) ==
    \E outs \in outcomes, sinkOk \in sinks :
        \E res \in {route(keys, rrCounter, usageLog, req, outs, sinkOk, ord, today,
                          strategy) : ord \in Orders} :
            /\ keys' = res.st.store
            /\ rrCounter' = res.st.counters
            /\ usageLog' = res.st.log
            /\ rt' = [outcome |-> res.outcome, error |-> res.error, keyId |-> res.keyId,
                      provider |-> res.provider, model |-> res.model, request |-> req,
                      selectCalls |-> res.st.selectCalls,
                      chatCalls |-> res.st.chatCalls,
                      chatKeys |-> res.st.chatKeys,
                      sleeps |-> res.st.sleeps, trace |-> res.st.trace,
                      attemptedKeyIds |-> res.st.attemptedKeyIds,
                      eligible |-> res.st.eligible, group |-> res.st.group,
                      outs |-> outs, sinkOk |-> sinkOk, before |-> keys,
                      countersBefore |-> rrCounter, logBefore |-> usageLog,
                      today |-> today]

\* route called right after the previous call returned
Route ==
    /\ Len(usageLog) < MaxLog
    /\ \E req \in RouteRequests : RouteCall(req, RouteOutcomes, {TRUE})
    /\ picks' = Append(picks, PickOf("route", rt'.outcome = "ok", rt'.keyId,
                                     rt'.group, -1))
    /\ UNCHANGED <<locks, calls, queue, today, strategy, sel>>

NextRoute == Route

SpecRoute == InitRoute /\ [][NextRoute]_vars

\* ------------------------------------------------------------------------
\* Single route() calls under every kind of attempt outcome
\* ------------------------------------------------------------------------
AttemptStores ==
    {StoreOf(Row("k1", "openai", 1, TRUE, <<>>, q[1], q[2], q[3]),
             Row("k2", "openai", 1, TRUE, <<>>, Null, 0, 1),
             Row("k3", "anthropic", 2, TRUE, <<>>, Null, 0, 1)) :
        q \in {<<Null, 0, 1>>, <<1, 0, 1>>, <<1, 1, 1>>, <<1, 1, 0>>}}

AttemptRequests ==
    {Context(Undefined, "auto", {}, {}), Context(Undefined, "openai", {}, {2}),
     Context(Gpt4o, "anthropic", {}, {}),
     Context(Claude3OpusLatest, "auto", {}, {})}

\* what happens at attempts 0 .. maxRetries-1 (see outcomeAt)
AttemptOutcomes ==
    {<<"ok", "ok", "ok">>, <<"500", "ok", "ok">>, <<"500", "500", "ok">>,
     <<"500", "500", "500">>, <<"429", "ok", "ok">>, <<"429", "429", "401">>,
     <<"401", "ok", "ok">>, <<"500", "401", "ok">>, <<"db", "ok", "ok">>,
     <<"db", "db", "db">>, <<"500", "db", "429">>, <<"incr", "ok", "ok">>,
     <<"incr", "incr", "incr">>}

\* the attempt outcomes tried while the usage sink is down
SinkDownOutcomes ==
    {<<"ok", "ok", "ok">>, <<"500", "ok", "ok">>, <<"401", "ok", "ok">>,
     <<"500", "500", "500">>}

InitAttempts ==
    /\ keys \in AttemptStores
    /\ today = 1
    /\ \E c \in 0..1 : rrCounter = [ck \in CounterKeys |-> c]
    /\ strategy \in Strategies
    /\ sel = NoSel
    /\ picks = <<>>
    /\ usageLog = <<>>
    /\ rt = NoRoute
    /\ queue = NoQueue
    /\ calls = NoCalls
    /\ locks = NoLocks

\* route called with the usage sink up or down
RouteOnce ==
    /\ Len(picks) < MaxRoutes
    /\ \E req \in AttemptRequests :
          \/ RouteCall(req, AttemptOutcomes, {TRUE})
          \/ RouteCall(req, SinkDownOutcomes, {FALSE})
    /\ picks' = Append(picks, PickOf("route", rt'.outcome = "ok", rt'.keyId,
                                     rt'.group, -1))
    /\ UNCHANGED <<locks, calls, queue, today, strategy, sel>>

NextAttempts == RouteOnce

SpecAttempts == InitAttempts /\ [][NextAttempts]_vars

\* ------------------------------------------------------------------------
\* Chat request queue: jobs, queue events, worker, waiters
\* ------------------------------------------------------------------------
DigitChars == <<"0", "1", "2", "3", "4", "5", "6", "7", "8", "9">>

\* the decimal digits of a non-negative integer
RECURSIVE decimalString(_)
decimalString(n) ==
    IF n < 10 THEN <<DigitChars[n + 1]>>
    ELSE decimalString(n \div 10) \o <<DigitChars[(n % 10) + 1]>>

\* the n-th identifier uuidv4() generates; none is a string of digits
uuidv4(n) == <<"u", "u", "i", "d", "-">> \o decimalString(n)

\* s.includes(p)
includes(s, p) ==
    \E i \in 0..(Len(s) - Len(p)) : SubSeq(s, i + 1, i + Len(p)) = p

\* JSON.stringify of a job result, as the completed event carries it
stringify(result) == <<"json", result>>

\* null where a job result is expected
NullResult == [success |-> "null"]

parseReturnValue(returnvalue) ==
    IF returnvalue = Undefined \/ returnvalue = EmptyString THEN NullResult
    ELSE IF Len(returnvalue) = 2 /\ returnvalue[1] = "json"
         THEN returnvalue[2]
    ELSE NullResult

\* new Error(message)
Error(message) == [message |-> message]

\* `Job ${requestId} timed out after ${timeoutMs}ms`
timeoutMessage(requestId) ==
    <<"J", "o", "b", " ">> \o requestId
        \o <<" ", "t", "i", "m", "e", "d", " ", "o", "u", "t", " ",
             "a", "f", "t", "e", "r">>

TimedOut == <<"t", "i", "m", "e", "d", " ", "o", "u", "t">>
FailedToParse == <<"F", "a", "i", "l", "e", "d", " ", "t", "o", " ",
                   "p", "a", "r", "s", "e">>
JobFailed == <<"J", "o", "b", " ", "f", "a", "i", "l", "e", "d">>
InternalError == <<"I", "n", "t", "e", "r", "n", "a", "l">>
UpstreamTimedOut == <<"U", "p", "s", "t", "r", "e", "a", "m", " ">> \o TimedOut
NoKeyMessage == <<"N", "o", " ", "k", "e", "y">>

\* error.message.includes('timed out') in the GET /chat/:requestId handler
isTimeoutRejection(error) == includes(error.message, TimedOut)

\* queue.add(name, data, opts) with no jobId in opts: the queue numbers the
\* job itself, starting at 1, and the name is kept as a label only
queueAdd(jobs, name, data) ==
    Append(jobs, [id |-> decimalString(Len(jobs) + 1), name |-> name,
                  data |-> data, state |-> "waiting",
                  returnvalue |-> NullResult, failedReason |-> Undefined,
                  attemptsMade |-> 0, chatCalls |-> 0])

\* queue.getJob(jobId): the position of the job with that id, 0 for none
getJob(jobs, jobId) ==
    IF \E i \in 1..Len(jobs) : jobs[i].id = jobId
    THEN CHOOSE i \in 1..Len(jobs) : jobs[i].id = jobId
    ELSE 0

\* jobData: { requestId, request: { ...request, requestId } }
jobData(request, requestId) ==
    [requestId |-> requestId,
     request |-> [request EXCEPT !.requestId = requestId]]

enqueueChatRequest(q, request) ==
    [requestId |-> IF Truthy(request.requestId) THEN request.requestId
                   ELSE uuidv4(q.uuids + 1),
     q |-> IF Truthy(request.requestId)
           THEN [q EXCEPT !.jobs = queueAdd(q.jobs, request.requestId,
                                       jobData(request, request.requestId))]
           ELSE [q EXCEPT !.uuids = q.uuids + 1,
                          !.jobs = queueAdd(q.jobs, uuidv4(q.uuids + 1),
                                       jobData(request, uuidv4(q.uuids + 1)))]]

\* defaultJobOptions.attempts: the times the queue lets the worker run a job
attempts == 3

\* error.message of what route() throws
messageOf(error) ==
    IF error.code = "NO_ELIGIBLE_KEY" THEN NoKeyMessage
    ELSE IF error.status = 504 THEN UpstreamTimedOut
    ELSE InternalError

\* an outcome of router.route as the worker sees it
Routed(outcome, error, keyId, chatCalls) ==
    [outcome |-> outcome, error |-> error, keyId |-> keyId,
     provider |-> IF keyId = "k3" THEN "anthropic" ELSE "openai",
     model |-> Gpt4o, chatCalls |-> chatCalls]

\* what router.route does with the job's request
RoutedOutcomes ==
    {Routed("ok", NoError, "k1", 1),
     Routed("error", GatewayError("NO_ELIGIBLE_KEY", 429), "unknown", 0),
     Routed("error", GatewayError("PROVIDER_ERROR", 500), "unknown", 1),
     Routed("error", GatewayError("PROVIDER_ERROR", 504), "unknown", 1)}

\* the worker's job handler: a result, or a throw that fails the attempt
processChatJob(job, routed) ==
    IF routed.outcome = "ok"
    THEN [threw |-> FALSE,
          result |-> [success |-> TRUE, response |-> job.data.requestId,
                      keyId |-> routed.keyId, provider |-> routed.provider,
                      model |-> routed.model]]
    ELSE IF routed.error.structured /\ routed.error.status < 500
    THEN [threw |-> FALSE,
          result |-> [success |-> FALSE, error |-> messageOf(routed.error)]]
    ELSE [threw |-> TRUE, error |-> Error(messageOf(routed.error))]

\* the queue after the handler returned: the job is completed and the
\* completed event published
moveToCompleted(q, i, result) ==
    [q EXCEPT !.jobs[i].state = "completed",
              !.jobs[i].attemptsMade = @ + 1,
              !.jobs[i].returnvalue = result,
              !.events = Append(@, [event |-> "completed",
                                    jobId |-> q.jobs[i].id,
                                    returnvalue |-> stringify(result)])]

\* variant of moveToFailed that grants one attempt more
moveToFailed_OneMore(q, i, error) ==
    IF q.jobs[i].attemptsMade + 1 < attempts + 1
    THEN [q EXCEPT !.jobs[i].state = "waiting",
                   !.jobs[i].attemptsMade = @ + 1]
    ELSE [q EXCEPT !.jobs[i].state = "failed",
                   !.jobs[i].attemptsMade = @ + 1,
                   !.jobs[i].failedReason = error.message,
                   !.events = Append(@, [event |-> "failed",
                                         jobId |-> q.jobs[i].id,
                                         failedReason |-> error.message])]

\* the queue after the handler threw: the job waits for its next attempt
\* while attempts remain, else it is failed and the failed event published
moveToFailed(q, i, error) ==
    IF q.jobs[i].attemptsMade + 1 < attempts
    THEN [q EXCEPT !.jobs[i].state = "waiting",
                   !.jobs[i].attemptsMade = @ + 1]
    ELSE [q EXCEPT !.jobs[i].state = "failed",
                   !.jobs[i].attemptsMade = @ + 1,
                   !.jobs[i].failedReason = error.message,
                   !.events = Append(@, [event |-> "failed",
                                         jobId |-> q.jobs[i].id,
                                         failedReason |-> error.message])]

\* one run of the worker on job i, router.route having ended as routed
runJob(q, i, routed) ==
    IF processChatJob(q.jobs[i], routed).threw
    THEN moveToFailed([q EXCEPT !.jobs[i].chatCalls = @ + routed.chatCalls], i,
                      processChatJob(q.jobs[i], routed).error)
    ELSE moveToCompleted([q EXCEPT !.jobs[i].chatCalls = @ + routed.chatCalls], i,
                         processChatJob(q.jobs[i], routed).result)

\* a pending waitForJob(requestId, timeoutMs) call
NewWaiter(requestId) ==
    [requestId |-> requestId, promise |-> "pending", value |-> Undefined,
     by |-> "none", job |-> Undefined, calls |-> 0,
     handlers |-> TRUE, timer |-> TRUE,
     lookup |-> "getJob", snapshot |-> Undefined, found |-> 0,
     checks |-> {}, elapsed |-> FALSE, unfinishedAtT |-> FALSE,
     finishedBefore |-> FALSE]

cleanup(w) == [w EXCEPT !.timer = FALSE, !.handlers = FALSE]

\* resolve(value) / reject(error): only the first call settles the promise
settle(w, outcome, value, by, jobId) ==
    IF w.promise = "pending"
    THEN [w EXCEPT !.promise = outcome, !.value = value, !.by = by,
                   !.job = jobId, !.calls = w.calls + 1]
    ELSE [w EXCEPT !.calls = w.calls + 1]

onCompleted(w, ev) ==
    IF ev.jobId = w.requestId
    THEN IF parseReturnValue(ev.returnvalue) # NullResult
         THEN settle(cleanup(w), "resolved",
                     parseReturnValue(ev.returnvalue), "event", ev.jobId)
         ELSE settle(cleanup(w), "rejected", Error(FailedToParse),
                     "event", ev.jobId)
    ELSE w

onFailed(w, ev) ==
    IF ev.jobId = w.requestId
    THEN settle(cleanup(w), "rejected", Error(ev.failedReason),
                "event", ev.jobId)
    ELSE w

\* the handlers the waiter has registered on the queue events
handle(w, ev) ==
    IF ~w.handlers THEN w
    ELSE IF ev.event = "completed" THEN onCompleted(w, ev)
    ELSE onFailed(w, ev)

\* the callback of setTimeout(..., timeoutMs)
onTimeout(w) ==
    settle(cleanup(w), "rejected", Error(timeoutMessage(w.requestId)),
           "timer", Undefined)

\* queue.getJob(requestId).then(job => ...): the job is read once, here
onGetJob(w, jobs) ==
    IF getJob(jobs, w.requestId) = 0
    THEN [w EXCEPT !.lookup = "done"]
    ELSE [w EXCEPT !.lookup = "checks",
                   !.found = getJob(jobs, w.requestId),
                   !.snapshot = jobs[getJob(jobs, w.requestId)],
                   !.checks = {"isCompleted", "isFailed"}]

checked(w, check) ==
    [w EXCEPT !.checks = w.checks \ {check},
              !.lookup = IF w.checks \ {check} = {} THEN "done" ELSE "checks"]

\* job.isCompleted().then(completed => ...): the state is read now, the
\* return value is the one read by getJob
onIsCompleted(w, jobs) ==
    IF jobs[w.found].state = "completed" /\ w.snapshot.returnvalue # NullResult
    THEN settle(cleanup(checked(w, "isCompleted")), "resolved",
                w.snapshot.returnvalue, "lookup", w.snapshot.id)
    ELSE checked(w, "isCompleted")

\* job.isFailed().then(failed => ...)
onIsFailed(w, jobs) ==
    IF jobs[w.found].state = "failed"
    THEN settle(cleanup(checked(w, "isFailed")), "rejected",
                Error(IF Truthy(w.snapshot.failedReason)
                      THEN w.snapshot.failedReason ELSE JobFailed),
                "lookup", w.snapshot.id)
    ELSE checked(w, "isFailed")

\* a ChatRequest: what the router reads of it, and its requestId
ChatRequest(ctx, requestId) ==
    [requestedModel |-> ctx.requestedModel,
     requestedProvider |-> ctx.requestedProvider,
     allowedProviders |-> ctx.allowedProviders,
     allowedPriorities |-> ctx.allowedPriorities,
     requestId |-> requestId]

\* the request the queued jobs carry
QueueContext == Context(Undefined, "auto", {}, {})

\* the request ids callers supply themselves
CallerRequestIds == {<<"1">>, <<"2">>, <<"r", "1">>}

InitQueue ==
    /\ keys \in {s \in AttemptStores : s["k1"].dailyLimit = Null}
    /\ today = 1
    /\ rrCounter = [ck \in CounterKeys |-> 0]
    /\ strategy = "exhaust-first"
    /\ sel = NoSel
    /\ picks = <<>>
    /\ usageLog = <<>>
    /\ rt = NoRoute
    /\ queue = NoQueue
    /\ calls = NoCalls
    /\ locks = NoLocks

\* POST /chat with async: the request id is the caller's or a generated one
Enqueue ==
    /\ Len(queue.jobs) < MaxJobs
    /\ \E rid \in CallerRequestIds \cup {Undefined} :
          /\ \A i \in 1..Len(queue.jobs) : queue.jobs[i].data.requestId # rid
          /\ queue' = enqueueChatRequest(queue, ChatRequest(QueueContext, rid)).q
    /\ UNCHANGED <<locks, calls, keys, today, rrCounter, strategy, sel, picks, usageLog,
                   rt>>

\* GET /chat/:requestId for a request id that enqueueChatRequest returned
WaitForJob ==
    /\ Len(queue.waiters) < MaxWaiters
    /\ \E i \in 1..Len(queue.jobs) :
          queue' = [queue EXCEPT !.waiters =
                       Append(queue.waiters,
                              [NewWaiter(queue.jobs[i].data.requestId) EXCEPT
                                  !.finishedBefore =
                                      queue.jobs[i].state
                                          \in {"completed", "failed"}])]
    /\ UNCHANGED <<locks, calls, keys, today, rrCounter, strategy, sel, picks, usageLog,
                   rt>>

\* the worker takes a waiting job
WorkerTakes ==
    /\ \E i \in 1..Len(queue.jobs) :
          /\ queue.jobs[i].state = "waiting"
          /\ queue' = [queue EXCEPT !.jobs[i].state = "active"]
    /\ UNCHANGED <<locks, calls, keys, today, rrCounter, strategy, sel, picks, usageLog,
                   rt>>

\* the worker's handler ends on an active job: the job is completed, waits
\* for its next attempt, or is failed
WorkerFinishes ==
    /\ \E i \in 1..Len(queue.jobs), routed \in RoutedOutcomes :
          /\ queue.jobs[i].state = "active"
          /\ queue' = runJob(queue, i, routed)
    /\ UNCHANGED <<locks, calls, keys, today, rrCounter, strategy, sel, picks, usageLog,
                   rt>>

\* the oldest event reaches the handlers registered at that moment
DeliverEvent ==
    /\ queue.events # <<>>
    /\ queue' = [queue EXCEPT
                   !.events = Tail(queue.events),
                   !.waiters = [k \in 1..Len(queue.waiters) |->
                                   handle(queue.waiters[k], Head(queue.events))]]
    /\ UNCHANGED <<locks, calls, keys, today, rrCounter, strategy, sel, picks, usageLog,
                   rt>>

GetJobResolves ==
    /\ \E k \in 1..Len(queue.waiters) :
          /\ queue.waiters[k].lookup = "getJob"
          /\ queue' = [queue EXCEPT
                         !.waiters[k] = onGetJob(queue.waiters[k], queue.jobs)]
    /\ UNCHANGED <<locks, calls, keys, today, rrCounter, strategy, sel, picks, usageLog,
                   rt>>

IsCompletedResolves ==
    /\ \E k \in 1..Len(queue.waiters) :
          /\ "isCompleted" \in queue.waiters[k].checks
          /\ queue' = [queue EXCEPT
                         !.waiters[k] =
                             onIsCompleted(queue.waiters[k], queue.jobs)]
    /\ UNCHANGED <<locks, calls, keys, today, rrCounter, strategy, sel, picks, usageLog,
                   rt>>

IsFailedResolves ==
    /\ \E k \in 1..Len(queue.waiters) :
          /\ "isFailed" \in queue.waiters[k].checks
          /\ queue' = [queue EXCEPT
                         !.waiters[k] =
                             onIsFailed(queue.waiters[k], queue.jobs)]
    /\ UNCHANGED <<locks, calls, keys, today, rrCounter, strategy, sel, picks, usageLog,
                   rt>>

\* the job enqueued under the request id (request ids are unique)
JobOf(requestId) ==
    CHOOSE i \in 1..Len(queue.jobs) :
        queue.jobs[i].data.requestId = requestId

Finished(job) == job.state \in {"completed", "failed"}

\* timeoutMs have passed since the waitForJob call
TimerElapses ==
    /\ \E k \in 1..Len(queue.waiters) :
          /\ ~queue.waiters[k].elapsed
          /\ LET w == [queue.waiters[k] EXCEPT
                          !.elapsed = TRUE,
                          !.unfinishedAtT =
                              ~Finished(queue.jobs[JobOf(queue.waiters[k].requestId)])]
             IN queue' = [queue EXCEPT
                            !.waiters[k] = IF w.timer THEN onTimeout(w) ELSE w]
    /\ UNCHANGED <<locks, calls, keys, today, rrCounter, strategy, sel, picks, usageLog,
                   rt>>

NextQueue ==
    \/ Enqueue
    \/ WaitForJob
    \/ WorkerTakes
    \/ WorkerFinishes
    \/ DeliverEvent
    \/ GetJobResolves
    \/ IsCompletedResolves
    \/ IsFailedResolves
    \/ TimerElapses

SpecQueue == InitQueue /\ [][NextQueue]_vars

\* ------------------------------------------------------------------------
\* Enqueueing under any request id
\* ------------------------------------------------------------------------
\* POST /chat with async: the caller supplies any request id or none,
\* whatever the ids of the jobs already stored
EnqueueAny ==
    /\ Len(queue.jobs) < MaxJobs
    /\ \E rid \in CallerRequestIds \cup {Undefined, EmptyString} :
          queue' = enqueueChatRequest(queue, ChatRequest(QueueContext, rid)).q
    /\ UNCHANGED <<locks, keys, today, rrCounter, strategy, sel, picks, usageLog, rt,
                   calls>>

NextEnqueue ==
    \/ EnqueueAny
    \/ WorkerTakes
    \/ WorkerFinishes

SpecEnqueue == InitQueue /\ [][NextEnqueue]_vars

\* ------------------------------------------------------------------------
\* Jobs run by the worker through router.route
\* ------------------------------------------------------------------------
\* what the environment does at the attempts of one route() call of the worker
WorkerOutcomes ==
    {<<"ok", "ok", "ok">>, <<"500", "ok", "ok">>, <<"500", "500", "500">>,
     <<"401", "ok", "ok">>, <<"db", "db", "db">>}

JobStores ==
    {s \in AttemptStores : s["k1"].dailyLimit = Null}
        \cup {StoreOf(Row("k1", "openai", 1, TRUE, <<>>, Null, 0, 1),
                      Row("k2", "openai", 1, TRUE, <<>>, Null, 0, 1),
                      Row("k3", "openai", 1, TRUE, <<>>, Null, 0, 1))}

JobContexts == {Context(Undefined, "auto", {}, {})}

\* processChatJob on an active job: router.route runs on the job's request
\* and the job is completed, waits for its next attempt, or is failed
WorkerRoutes ==
    /\ \E i \in 1..Len(queue.jobs) :
          /\ queue.jobs[i].state = "active"
          /\ RouteCall(queue.jobs[i].data.request, WorkerOutcomes, {TRUE})
          /\ queue' = runJob(queue, i, rt')
    /\ UNCHANGED <<locks, calls, today, strategy, sel, picks>>

InitJob ==
    /\ keys \in JobStores
    /\ today = 1
    /\ rrCounter = [ck \in CounterKeys |-> 0]
    /\ strategy \in Strategies
    /\ sel = NoSel
    /\ picks = <<>>
    /\ usageLog = <<>>
    /\ rt = NoRoute
    /\ queue = NoQueue
    /\ calls = NoCalls
    /\ locks = NoLocks

\* POST /chat with async and no requestId, while few jobs are queued
EnqueueJob ==
    /\ Len(queue.jobs) < MaxQueued
    /\ \E ctx \in JobContexts :
          queue' = enqueueChatRequest(queue, ChatRequest(ctx, Undefined)).q
    /\ UNCHANGED <<locks, calls, keys, today, rrCounter, strategy, sel, picks, usageLog,
                   rt>>

NextJob ==
    \/ EnqueueJob
    \/ WorkerTakes
    \/ WorkerRoutes

SpecJob == InitJob /\ [][NextJob]_vars

\* POST /chat with async, with a requestId of the caller or with none
EnqueueRequest ==
    /\ Len(queue.jobs) < MaxQueued
    /\ \E ctx \in JobContexts, rid \in {Undefined, <<"1">>} :
          queue' = enqueueChatRequest(queue, ChatRequest(ctx, rid)).q
    /\ UNCHANGED <<locks, calls, keys, today, rrCounter, strategy, sel, picks, usageLog,
                   rt>>

\* the queue, the worker running router.route, and the waiters together
NextWorker ==
    \/ EnqueueRequest
    \/ WaitForJob
    \/ WorkerTakes
    \/ WorkerRoutes
    \/ DeliverEvent
    \/ GetJobResolves
    \/ IsCompletedResolves
    \/ IsFailedResolves
    \/ TimerElapses

SpecWorker == InitJob /\ [][NextWorker]_vars

\* ------------------------------------------------------------------------
\* Concurrent route() calls on several router instances
\* ------------------------------------------------------------------------
\* the keys the concurrent calls share: one group of two, usage under way
ConcurrentStores ==
    {StoreOf(Row("k1", "openai", 1, TRUE, <<>>, Null, 1, 1),
             Row("k2", "openai", 1, TRUE, <<>>, Null, 1, 1),
             Row("k3", "anthropic", 2, TRUE, <<>>, Null, 0, 1))}

\* a route() call before its first attempt
NewCall(request) ==
    [request |-> request, pc |-> "select", attempt |-> 0, keyId |-> "none",
     seen |-> 0, attemptedKeyIds |-> {}, found |-> <<>>,
     st |-> [lastError |-> NoError, trace |-> <<>>, sleeps |-> <<>>]]

\* catch (error) of the attempt of a call: stop, or go on with the next
\* attempt while attempts are left
callCatch(call, error) ==
    LET c == routeCatch(call.attempt, call.st, error)
    IN  [call EXCEPT !.st = c.st,
                     !.attempt = IF c.stop THEN @ ELSE @ + 1,
                     !.pc = IF c.stop \/ ~attemptsLeft(call.attempt + 1)
                            THEN "failed" ELSE "select"]

\* selectKeyWithFallback has answered r: the key is taken, or the attempt fails
callSelected(call, r) ==
    IF r.outcome # "ok"
    THEN callCatch(call, GatewayError("NO_ELIGIBLE_KEY", 429))
    ELSE IF alreadyAttempted(call.attemptedKeyIds, r.key.id)
    THEN callCatch(call, GatewayError("PROVIDER_ERROR", 503))
    ELSE IF ~validateModel(r.key.provider, r.resolvedModel)
    THEN callCatch([call EXCEPT !.attemptedKeyIds = @ \cup {r.key.id}],
                   GatewayError("MODEL_NOT_SUPPORTED", 400))
    ELSE [call EXCEPT !.attemptedKeyIds = @ \cup {r.key.id},
                      !.keyId = r.key.id,
                      !.seen = r.key.usedToday,
                      !.pc = "chat"]

\* adapter.chat has answered or failed
callChatted(call, outcome) ==
    IF outcome = "ok" THEN [call EXCEPT !.pc = "count"]
    ELSE callCatch(call, GatewayError("PROVIDER_ERROR", statusOf(outcome)))

\* variant of countUsage that writes back the usage read at selection plus one
countUsage_FromSelection(store, call) ==
    [store EXCEPT ![call.keyId].usedToday = call.seen + 1]

\* keyManager.incrementUsage(selection.key.id): the store adds one to the
\* value it holds at that moment
countUsage(store, call) == incrementUsage(store, call.keyId)

InitConcurrent ==
    /\ keys \in ConcurrentStores
    /\ today = 1
    /\ rrCounter = [ck \in CounterKeys |-> 0]
    /\ strategy \in Strategies
    /\ sel = NoSel
    /\ picks = <<>>
    /\ usageLog = <<>>
    /\ rt = NoRoute
    /\ queue = NoQueue
    /\ calls = [before |-> keys, list |-> <<>>]
    /\ locks = NoLocks

\* a router instance receives a request
CallBegins ==
    /\ Len(calls.list) < MaxCalls
    /\ calls' = [calls EXCEPT !.list =
                    Append(@, NewCall(Context(Undefined, "auto", {}, {})))]
    /\ UNCHANGED <<locks, keys, today, rrCounter, strategy, sel, picks, usageLog, rt,
                   queue>>

\* a call gets the answer of selectKey, computed on the store as it is now
CallSelects ==
    /\ \E k \in 1..Len(calls.list) :
          /\ calls.list[k].pc = "select"
          /\ \E r \in {selectKey(keys, rrCounter, calls.list[k].request, ord,
                                 today, strategy) : ord \in Orders} :
                /\ keys' = r.store
                /\ rrCounter' = r.counters
                /\ calls' = [calls EXCEPT !.list[k] = callSelected(@, r)]
    /\ UNCHANGED <<locks, today, strategy, sel, picks, usageLog, rt, queue>>

\* the adapter of a call answers or fails
CallChats ==
    /\ \E k \in 1..Len(calls.list), outcome \in {"ok", "500"} :
          /\ calls.list[k].pc = "chat"
          /\ calls' = [calls EXCEPT !.list[k] = callChatted(@, outcome)]
    /\ UNCHANGED <<locks, keys, today, rrCounter, strategy, sel, picks, usageLog, rt,
                   queue>>

\* the usage update of a call reaches the store
CallCounts ==
    /\ \E k \in 1..Len(calls.list) :
          /\ calls.list[k].pc = "count"
          /\ keys' = countUsage(keys, calls.list[k])
          /\ calls' = [calls EXCEPT !.list[k].pc = "log"]
    /\ UNCHANGED <<locks, today, rrCounter, strategy, sel, picks, usageLog, rt,
                   queue>>

\* a call logs its usage and returns, or logs its failure and throws
CallEnds ==
    /\ \E k \in 1..Len(calls.list) :
          \/ /\ calls.list[k].pc = "log"
             /\ usageLog' = logUsage(usageLog,
                                [keyId |-> calls.list[k].keyId,
                                 provider |-> keys[calls.list[k].keyId].provider,
                                 model |-> Undefined, success |-> TRUE],
                                TRUE).log
             /\ calls' = [calls EXCEPT !.list[k].pc = "returned"]
          \/ /\ calls.list[k].pc = "failed"
             /\ usageLog' = logUsage(usageLog,
                                failureEntry(calls.list[k].request), TRUE).log
             /\ calls' = [calls EXCEPT !.list[k].pc = "threw"]
    /\ UNCHANGED <<locks, keys, today, rrCounter, strategy, sel, picks, rt, queue>>

NextConcurrent ==
    \/ CallBegins
    \/ CallSelects
    \/ CallChats
    \/ CallCounts
    \/ CallEnds

SpecConcurrent == InitConcurrent /\ [][NextConcurrent]_vars

\* ------------------------------------------------------------------------
\* Concurrent route() calls on a key that is one dispatch short of its limit
\* ------------------------------------------------------------------------
\* k1 has one dispatch left today, k2 none, k3 is the lower-priority fallback
LimitedStores ==
    {StoreOf(Row("k1", "openai", 1, TRUE, <<>>, MaxUsed, MaxUsed - 1, 1),
             Row("k2", "openai", 1, TRUE, <<>>, MaxUsed, MaxUsed, 1),
             Row("k3", "anthropic", 2, TRUE, <<>>, Null, 0, 1))}

InitQuota ==
    /\ keys \in LimitedStores
    /\ today = 1
    /\ rrCounter = [ck \in CounterKeys |-> 0]
    /\ strategy \in Strategies
    /\ sel = NoSel
    /\ picks = <<>>
    /\ usageLog = <<>>
    /\ rt = NoRoute
    /\ queue = NoQueue
    /\ calls = [before |-> keys, list |-> <<>>]
    /\ locks = NoLocks

SpecQuota == InitQuota /\ [][NextConcurrent]_vars

\* ------------------------------------------------------------------------
\* Concurrent route() calls after a day rollover
\* ------------------------------------------------------------------------
\* the day has changed since the keys were last used: every record is stale
RolloverStores ==
    {StoreOf(Row("k1", "openai", 1, TRUE, <<>>, Null, 1, 0),
             Row("k2", "openai", 1, TRUE, <<>>, Null, 1, 0),
             Row("k3", "anthropic", 2, TRUE, <<>>, Null, 0, 0))}

InitRollover ==
    /\ keys \in RolloverStores
    /\ today = 1
    /\ rrCounter = [ck \in CounterKeys |-> 0]
    /\ strategy \in Strategies
    /\ sel = NoSel
    /\ picks = <<>>
    /\ usageLog = <<>>
    /\ rt = NoRoute
    /\ queue = NoQueue
    /\ calls = [before |-> keys, list |-> <<>>]
    /\ locks = NoLocks

\* selectKey of a call gets the answer of its candidate query: the records as
\* the store holds them now
CallQueries ==
    /\ \E k \in 1..Len(calls.list), ord \in Orders :
          /\ calls.list[k].pc = "select"
          /\ calls' = [calls EXCEPT !.list[k].found =
                                        findMany(keys, calls.list[k].request, ord),
                                    !.list[k].pc = "reset"]
    /\ UNCHANGED <<locks, keys, today, rrCounter, strategy, sel, picks, usageLog, rt,
                   queue>>

\* selectKey of a call goes on with the records it read: the batch reset of
\* those that were stale reaches the store, and the key is taken from the
\* records in memory
CallResets ==
    /\ \E k \in 1..Len(calls.list) :
          /\ calls.list[k].pc = "reset"
          /\ LET r == selectKeyFound(calls.list[k].found, keys, rrCounter,
                                     calls.list[k].request, today, strategy)
             IN  /\ keys' = r.store
                 /\ rrCounter' = r.counters
                 /\ calls' = [calls EXCEPT !.list[k] = callSelected(@, r)]
    /\ UNCHANGED <<locks, today, strategy, sel, picks, usageLog, rt, queue>>

NextRollover ==
    \/ CallBegins
    \/ CallQueries
    \/ CallResets
    \/ CallChats
    \/ CallCounts
    \/ CallEnds

SpecRollover == InitRollover /\ [][NextRollover]_vars

\* ------------------------------------------------------------------------
\* Advisory key locks
\* ------------------------------------------------------------------------
\* redis.set(key, '1', 'PX', ttlMs, 'NX'); return result === 'OK'
acquireKeyLock(l, caller, keyId) ==
    IF l.set[keyId] = "free"
    THEN [ok |-> TRUE,
          l |-> [l EXCEPT !.set[keyId] = caller,
                          !.acquired[caller] = @ \cup {keyId}]]
    ELSE [ok |-> FALSE, l |-> l]

\* redis.del(key)
releaseKeyLock(l, caller, keyId) ==
    [l EXCEPT !.set[keyId] = "free",
              !.acquired[caller] = @ \ {keyId},
              !.last = [by |-> caller, key |-> keyId, removed |-> l.set[keyId]]]

\* a caller asks for the lock of a key it does not hold
AcquireKeyLock ==
    /\ \E c \in Callers, id \in LockKeys :
          /\ id \notin locks.acquired[c]
          /\ locks' = acquireKeyLock(locks, c, id).l
    /\ UNCHANGED <<keys, today, rrCounter, strategy, sel, picks, usageLog, rt,
                   queue, calls>>

\* a caller that acquired the lock of a key releases it
ReleaseKeyLock ==
    /\ \E c \in Callers, id \in LockKeys :
          /\ id \in locks.acquired[c]
          /\ locks' = releaseKeyLock(locks, c, id)
    /\ UNCHANGED <<keys, today, rrCounter, strategy, sel, picks, usageLog, rt,
                   queue, calls>>

\* the PX time of a lock key elapses: the counter store drops the key
LockExpires ==
    /\ \E id \in LockKeys :
          /\ locks.set[id] # "free"
          /\ locks' = [locks EXCEPT !.set[id] = "free"]
    /\ UNCHANGED <<keys, today, rrCounter, strategy, sel, picks, usageLog, rt,
                   queue, calls>>

NextLocks ==
    \/ AcquireKeyLock
    \/ ReleaseKeyLock
    \/ LockExpires

InitLocks ==
    /\ keys \in ConcurrentStores
    /\ today = 1
    /\ rrCounter = [ck \in CounterKeys |-> 0]
    /\ strategy = "exhaust-first"
    /\ sel = NoSel
    /\ picks = <<>>
    /\ usageLog = <<>>
    /\ rt = NoRoute
    /\ queue = NoQueue
    /\ calls = NoCalls
    /\ locks = NoLocks

SpecLocks == InitLocks /\ [][NextLocks]_vars

\* ------------------------------------------------------------------------
\* Error responses
\* ------------------------------------------------------------------------
\* errorHandler: the status and code of the reply to a request that threw
errorHandler(error) ==
    IF error.structured
    THEN [status |-> error.status, code |-> error.code]
    ELSE [status |-> 500, code |-> "INTERNAL_ERROR"]

\* what routeWithKeys returns when none of the user's keys is eligible
routeWithKeysNoEligible ==
    [success |-> FALSE, errorCode |-> "NO_ELIGIBLE_KEY", statusCode |-> 400]

\* ------------------------------------------------------------------------
\* Properties of selectKey
\* ------------------------------------------------------------------------
Called == sel.outcome # "none"
Returned == sel.outcome = "ok"
Failed == sel.outcome = "NoEligibleKey"

\* the row of a key as the call found it stored
Stored(id) == sel.before[id]

Stale(id) == Stored(id).resetDate < sel.today

\* usedToday of a key once the lazy reset of the call has been applied
UsedAfterReset(id) == IF Stale(id) THEN 0 ELSE Stored(id).usedToday

\* the four candidate conditions of the routing context
CandidateConditions(id) ==
    /\ Stored(id).enabled = TRUE
    /\ sel.ctx.allowedProviders # {} => Stored(id).provider \in sel.ctx.allowedProviders
    /\ sel.ctx.allowedPriorities # {} => Stored(id).priority \in sel.ctx.allowedPriorities
    /\ sel.ctx.requestedProvider # "auto" => Stored(id).provider = sel.ctx.requestedProvider

QuotaExcluded(id) ==
    /\ Stored(id).dailyLimit # Null
    /\ UsedAfterReset(id) >= Stored(id).dailyLimit

\* the model rule: empty list, "*", the exact name, or a prefix entry p*
ModelMatches(id, m) ==
    LET am == Stored(id).allowedModels
    IN  \/ am = <<>>
        \/ \E i \in 1..Len(am) :
              \/ am[i] = Star
              \/ am[i] = m
              \/ /\ Len(am[i]) >= 1
                 /\ am[i][Len(am[i])] = "*"
                 /\ Len(m) >= Len(am[i]) - 1
                 /\ SubSeq(m, 1, Len(am[i]) - 1) = SubSeq(am[i], 1, Len(am[i]) - 1)

\* C1: every key selectKey returns is enabled, of an allowed provider when
\* allowedProviders is non-empty, of an allowed priority when allowedPriorities
\* is non-empty, and of the requested provider when that is not 'auto'; a
\* requested provider outside a non-empty allowedProviders yields NoEligibleKey.
C1_ReturnedKeyIsCandidate ==
    /\ Returned => CandidateConditions(sel.key.id)
    /\ ( /\ Called
         /\ sel.ctx.allowedProviders # {}
         /\ sel.ctx.requestedProvider # "auto"
         /\ sel.ctx.requestedProvider \notin sel.ctx.allowedProviders ) => Failed

\* the keys that pass steps 1-4: candidate conditions, lazy reset, quota
\* filter, and the model filter when a model is requested
Survivors ==
    {id \in KeyIds :
        /\ CandidateConditions(id)
        /\ ~QuotaExcluded(id)
        /\ Truthy(sel.ctx.requestedModel) => ModelMatches(id, sel.ctx.requestedModel)}

\* C2: selectKey fails with NoEligibleKey exactly when no key survives the
\* candidate query, the lazy reset, the quota filter and the model filter,
\* and otherwise returns one of the survivors.
C2_FailsIffNoSurvivor ==
    Called => /\ Failed <=> Survivors = {}
              /\ Returned => sel.key.id \in Survivors

\* C3: the returned key has the smallest priority among the keys that
\* survive the filters, under either strategy.
C3_LowestPriorityGroup ==
    Returned =>
        /\ sel.key.id \in Range(sel.eligible)
        /\ \A id \in Range(sel.eligible) :
              Stored(sel.key.id).priority <= Stored(id).priority

C3_Witness ==
    /\ Returned
    /\ \E id \in Range(sel.eligible) : Stored(id).priority > Stored(sel.key.id).priority
    /\ Cardinality({id \in Range(sel.eligible) :
                       Stored(id).priority = Stored(sel.key.id).priority}) >= 2

\* remaining quota a >= remaining quota b, an unset dailyLimit being infinite
RemainingAtLeast(a, b) ==
    \/ Stored(a).dailyLimit = Null
    \/ /\ Stored(b).dailyLimit # Null
       /\ Stored(a).dailyLimit - UsedAfterReset(a) >= Stored(b).dailyLimit - UsedAfterReset(b)

\* position of a key in the listing the candidate query returned
ListingPos(id) == CHOOSE i \in 1..Len(sel.listing) : sel.listing[i] = id

\* the group selection works on: the eligible keys of the smallest priority
LowestGroup ==
    {id \in Range(sel.eligible) :
        \A other \in Range(sel.eligible) : Stored(id).priority <= Stored(other).priority}

\* C4: under exhaust-first the returned key has the greatest remaining quota
\* (dailyLimit - usedToday after the lazy reset, unlimited = infinite) of the
\* lowest priority group, and of the keys that tie for it the returned one is
\* the first in listing order (priority, then stored usedToday, ascending).
C4_ExhaustFirstGreatestRemaining ==
    (Returned /\ strategy = "exhaust-first") =>
        /\ sel.key.id \in LowestGroup
        /\ \A id \in LowestGroup : RemainingAtLeast(sel.key.id, id)
        /\ \A id \in LowestGroup :
              RemainingAtLeast(id, sel.key.id) => ListingPos(sel.key.id) <= ListingPos(id)
        /\ \A i, j \in 1..Len(sel.listing) :
              i < j =>
                  \/ Stored(sel.listing[i]).priority < Stored(sel.listing[j]).priority
                  \/ /\ Stored(sel.listing[i]).priority = Stored(sel.listing[j]).priority
                     /\ Stored(sel.listing[i]).usedToday <= Stored(sel.listing[j]).usedToday

\* several keys tie for the greatest remaining quota, one of them after a
\* reset, and a key with less remaining quota stands earlier in the listing
C4_Witness ==
    /\ Returned /\ strategy = "exhaust-first"
    /\ \E id \in LowestGroup :
          /\ id # sel.key.id
          /\ RemainingAtLeast(id, sel.key.id)
    /\ \E id \in LowestGroup :
          /\ ~RemainingAtLeast(id, sel.key.id)
          /\ ListingPos(id) < ListingPos(sel.key.id)

\* C8: a candidate with dailyLimit = D is dropped by the quota filter exactly
\* when its usedToday after the lazy reset is >= D; a candidate without a
\* dailyLimit is never dropped by it.
C8_QuotaFilter ==
    Called =>
        \A id \in Range(sel.listing) :
            /\ QuotaExcluded(id) => id \notin Range(sel.eligible)
            /\ ( /\ ~QuotaExcluded(id)
                 /\ ~Truthy(sel.ctx.requestedModel) \/ Stored(id).allowedModels = <<>> )
                   => id \in Range(sel.eligible)
            /\ ( /\ Stored(id).dailyLimit = Null
                 /\ ~Truthy(sel.ctx.requestedModel) \/ Stored(id).allowedModels = <<>> )
                   => id \in Range(sel.eligible)

\* one candidate sits exactly at its limit and is dropped, one is just below
\* its limit and kept, and an unlimited one with usage is kept
C8_Witness ==
    /\ Called
    /\ \E id \in Range(sel.listing) :
          /\ Stored(id).dailyLimit # Null
          /\ UsedAfterReset(id) = Stored(id).dailyLimit
          /\ id \notin Range(sel.eligible)
    /\ \E id \in Range(sel.listing) :
          /\ Stored(id).dailyLimit # Null
          /\ UsedAfterReset(id) = Stored(id).dailyLimit - 1
          /\ id \in Range(sel.eligible)

\* C9: every candidate whose resetDate is before today is left stored with
\* usedToday = 0 and resetDate = today by the call, selected or not, also when
\* the call fails at the quota/model gate; the reset precedes the quota filter,
\* so a stale key that was exhausted is eligible again in the same call.
C9_LazyReset ==
    Called =>
        \A id \in Range(sel.listing) :
            Stale(id) =>
                /\ keys[id].usedToday = 0
                /\ keys[id].resetDate = sel.today
                /\ ( /\ Stored(id).dailyLimit # Null
                     /\ Stored(id).dailyLimit > 0
                     /\ Stored(id).usedToday >= Stored(id).dailyLimit
                     /\ ~Truthy(sel.ctx.requestedModel) \/ Stored(id).allowedModels = <<>> )
                       => id \in Range(sel.eligible)

\* a call that fails at the quota/model gate and still resets a stale,
\* formerly exhausted candidate
C9_Witness ==
    /\ Failed /\ sel.gate = 2
    /\ \E id \in Range(sel.listing) :
          /\ Stale(id)
          /\ Stored(id).dailyLimit # Null
          /\ Stored(id).usedToday > 0
          /\ Stored(id).usedToday >= Stored(id).dailyLimit
          /\ keys[id].usedToday = 0
          /\ keys[id].resetDate = sel.today

\* C10 as stated: whenever requestedModel is given (any string), a candidate
\* with quota left passes exactly when its allowedModels admits the model;
\* without a requestedModel no candidate is dropped by the model filter.
C10_ModelFilterAnyString ==
    Called =>
        \A id \in Range(sel.listing) :
            ~QuotaExcluded(id) =>
                IF sel.ctx.requestedModel # Undefined
                THEN id \in Range(sel.eligible) <=> ModelMatches(id, sel.ctx.requestedModel)
                ELSE id \in Range(sel.eligible)

\* C10 (amended): for a non-empty requestedModel m a candidate with quota left
\* passes exactly when its allowedModels is empty, contains "*", contains m, or
\* contains an entry p* with m starting with p; when requestedModel is absent
\* or the empty string no candidate is dropped by the model filter.
C10_ModelFilter ==
    /\ Called =>
        \A id \in Range(sel.listing) :
            ~QuotaExcluded(id) =>
                IF sel.ctx.requestedModel # Undefined /\ sel.ctx.requestedModel # EmptyString
                THEN id \in Range(sel.eligible) <=> ModelMatches(id, sel.ctx.requestedModel)
                ELSE id \in Range(sel.eligible)
    /\ \A m \in {Gpt4o, Gpt4Turbo, Gpt4oMini} : modelAllowed(<<Gpt4Star>>, m)
    /\ ~modelAllowed(<<Gpt4Star>>, Gpt35Turbo)

\* a request for gpt-4o-mini keeps a key that allows "gpt-4*" and drops a key
\* that allows only "gpt-4o"
C10_Witness ==
    /\ Called /\ sel.ctx.requestedModel = Gpt4oMini
    /\ \E id \in Range(sel.eligible) : Stored(id).allowedModels = <<Gpt4Star>>
    /\ \E id \in Range(sel.listing) :
          /\ Stored(id).allowedModels = <<Gpt4o>>
          /\ ~QuotaExcluded(id)
          /\ id \notin Range(sel.eligible)

\* ------------------------------------------------------------------------
\* Properties of the strategies over several calls
\* ------------------------------------------------------------------------
\* calls a..b of the run are successful calls of `op` on one and the same
\* group listing
SameGroupWindow(op, a, b) ==
    \A i \in a..b :
        /\ picks[i].op = op
        /\ picks[i].ok
        /\ picks[i].group = picks[a].group

\* C5: under exhaust-first a key with a dailyLimit that was dispatched keeps
\* being dispatched until its usedToday reaches its dailyLimit: when two
\* successful route() calls follow each other and the key of the first still
\* is eligible, in the same priority group, at the second, the second goes to
\* the same key.
C5_ExhaustOneKeyAtATime ==
    (strategy = "exhaust-first" /\ Len(usageLog) >= 2) =>
        LET prev == usageLog[Len(usageLog) - 1]
            last == usageLog[Len(usageLog)]
        IN  ( /\ prev.success /\ last.success
              /\ keys[prev.keyId].dailyLimit # Null
              /\ keys[prev.keyId].usedToday < keys[prev.keyId].dailyLimit
              /\ prev.keyId \in Range(rt.group) ) => last.keyId = prev.keyId

\* C6: under round-robin, k*m consecutive selectKey calls on an unchanged
\* group of size k select each index 0..k-1 exactly m times; a call adds one
\* to the counter of (provider of the group's first key, priority) and takes
\* (newValue - 1) mod k as the index.
C6_RoundRobinIndices ==
    /\ \A a, b \in 1..Len(picks) :
          ( /\ a <= b
            /\ SameGroupWindow("selectKey", a, b)
            /\ (b - a + 1) % Len(picks[a].group) = 0 ) =>
              \A idx \in 0..(Len(picks[a].group) - 1) :
                  Cardinality({i \in a..b : picks[i].index = idx})
                      = (b - a + 1) \div Len(picks[a].group)
    /\ (Returned /\ strategy = "round-robin") =>
          LET k == Len(sel.group)
              ck == <<Stored(sel.group[1]).provider, Stored(sel.key.id).priority>>
          IN  /\ rrCounter[ck] = sel.countersBefore[ck] + 1
              /\ \A other \in CounterKeys \ {ck} : rrCounter[other] = sel.countersBefore[other]
              /\ sel.index = (rrCounter[ck] - 1) % k
              /\ sel.key.id = sel.group[sel.index + 1]

\* six consecutive calls on one group of three keys, starting in the middle
\* of the cycle
C6_Witness ==
    /\ strategy = "round-robin"
    /\ Len(picks) = 6
    /\ SameGroupWindow("selectKey", 1, 6)
    /\ Len(picks[1].group) = 3
    /\ picks[1].index # 0

\* C7: under round-robin, k*m consecutive successful route() calls on a group
\* of k eligible keys dispatch each key of the group exactly m times.
C7_RoundRobinEvenLoad ==
    strategy = "round-robin" =>
        \A a, b \in 1..Len(picks) :
            ( /\ a <= b
              /\ \A i \in a..b :
                    /\ picks[i].op = "route"
                    /\ picks[i].ok
                    /\ Range(picks[i].group) = Range(picks[a].group)
              /\ (b - a + 1) % Len(picks[a].group) = 0 ) =>
                \A id \in Range(picks[a].group) :
                    Cardinality({i \in a..b : picks[i].key = id})
                        = (b - a + 1) \div Len(picks[a].group)

\* ------------------------------------------------------------------------
\* The result of selectKey
\* ------------------------------------------------------------------------
\* the key the strategy picks in the group the call selected from
StrategyPick(id) ==
    /\ id \in Range(sel.group)
    /\ strategy = "round-robin" =>
          /\ sel.index \in 0..(Len(sel.group) - 1)
          /\ sel.group[sel.index + 1] = id
    /\ strategy = "exhaust-first" =>
          \A j \in 1..Len(sel.group) :
              /\ RemainingAtLeast(id, sel.group[j])
              /\ RemainingAtLeast(sel.group[j], id) =>
                    \E i \in 1..j : sel.group[i] = id

\* C11 as stated: the resolvedModel of a returned selection is the
\* requestedModel whenever the context carries one (any string), and the
\* selected key's defaultModel otherwise; the returned key is the strategy's pick.
C11_ResolvedModelAnyString ==
    Returned =>
        /\ sel.resolvedModel =
              IF sel.ctx.requestedModel # Undefined THEN sel.ctx.requestedModel
              ELSE sel.key.defaultModel
        /\ StrategyPick(sel.key.id)

\* C11: the resolvedModel of a returned selection is the requestedModel when
\* that is a non-empty string, and the selected key's defaultModel when the
\* requestedModel is absent or the empty string; the returned key is the key
\* the strategy picked in the selected group.
C11_ResolvedModel ==
    Returned =>
        /\ sel.resolvedModel =
              IF sel.ctx.requestedModel \notin {Undefined, EmptyString}
              THEN sel.ctx.requestedModel
              ELSE sel.key.defaultModel
        /\ StrategyPick(sel.key.id)

\* a requested model that differs from the default of the returned key, and
\* a group of several keys to pick from
C11_Witness ==
    /\ Returned
    /\ sel.ctx.requestedModel \notin {Undefined, EmptyString}
    /\ sel.ctx.requestedModel # sel.key.defaultModel
    /\ sel.resolvedModel = sel.ctx.requestedModel
    /\ Len(sel.group) >= 2

\* ------------------------------------------------------------------------
\* Properties of single route() calls
\* ------------------------------------------------------------------------
RouteCalled == rt.outcome # "none"
RouteReturned == rt.outcome = "ok"
RouteThrew == rt.outcome = "error"

\* the attempt failed (its trace entry carries an error)
AttemptFailed(a) == a.error.code # "none"

\* non-retryable: a structured gateway error with status in [400,499] except 429
NonRetryable(e) == e.structured /\ e.status \in 400..499 /\ e.status # 429

\* by how much the call raised usedToday of a key, the lazy reset set aside
UsageRaisedBy(id) ==
    keys[id].usedToday -
        (IF keys[id].resetDate = rt.before[id].resetDate
         THEN rt.before[id].usedToday ELSE 0)

\* C12: one route() call makes at most maxRetries attempts: at most maxRetries
\* calls of selectKey and at most maxRetries calls of the adapter, whatever
\* the selections and the provider outcomes are.
C12_AtMostMaxRetries ==
    RouteCalled =>
        /\ rt.selectCalls <= maxRetries
        /\ rt.chatCalls <= maxRetries
        /\ Len(rt.trace) <= maxRetries
        /\ \A i \in 1..Len(rt.trace) : rt.trace[i].attempt = i - 1

\* a call that used up all its attempts and reached the adapter more than once
C12_Witness ==
    /\ RouteThrew
    /\ rt.selectCalls = maxRetries
    /\ Len(rt.trace) = maxRetries
    /\ rt.chatCalls >= 2

\* C13: exactly the failed retryable attempts i < maxRetries - 1 are followed
\* by a sleep, once, of retryDelayMs * 2^i; the last attempt, a non-retryable
\* failure and a success are followed by none.
C13_BackoffDelays ==
    RouteCalled =>
        /\ \A i \in 1..Len(rt.trace) :
              LET a == rt.trace[i]
              IN  ( /\ AttemptFailed(a)
                    /\ ~NonRetryable(a.error)
                    /\ a.attempt < maxRetries - 1 )
                  <=> \E j \in 1..Len(rt.sleeps) : rt.sleeps[j].after = a.attempt
        /\ \A j \in 1..Len(rt.sleeps) :
              /\ rt.sleeps[j].ms = retryDelayMs * (2 ^ rt.sleeps[j].after)
              /\ \E i \in 1..Len(rt.trace) : rt.trace[i].attempt = rt.sleeps[j].after
              /\ \A k \in 1..Len(rt.sleeps) :
                    rt.sleeps[k].after = rt.sleeps[j].after => k = j

\* a call that slept twice, 1000 ms and then 2000 ms, and not after its last attempt
C13_Witness ==
    /\ RouteThrew
    /\ Len(rt.trace) = 3
    /\ Len(rt.sleeps) = 2
    /\ rt.sleeps[1].ms = 1000
    /\ rt.sleeps[2].ms = 2000

\* C14: an attempt that fails with a non-retryable error is the last one (no
\* further selectKey or adapter call) and route() throws that same error;
\* every other failed attempt is followed by the next attempt while attempts
\* remain.
C14_NonRetryableStops ==
    RouteCalled =>
        \A i \in 1..Len(rt.trace) :
            LET a == rt.trace[i]
            IN  /\ (AttemptFailed(a) /\ NonRetryable(a.error)) =>
                      /\ i = Len(rt.trace)
                      /\ rt.selectCalls = i
                      /\ rt.chatCalls <= i
                      /\ RouteThrew
                      /\ rt.error = a.error
                /\ (AttemptFailed(a) /\ ~NonRetryable(a.error)
                       /\ a.attempt < maxRetries - 1) =>
                      /\ Len(rt.trace) > i
                      /\ rt.selectCalls > i

\* a retryable provider failure retried on another key, which fails with 401
\* and ends the call
C14_Witness ==
    /\ RouteThrew
    /\ Len(rt.trace) = 2
    /\ rt.trace[1].error.status = 500
    /\ rt.trace[2].error.status = 401
    /\ rt.error.status = 401
    /\ rt.selectCalls = 2

\* C15: a route() call that returns raised usedToday by exactly 1 for exactly
\* one key, the key of metadata.keyId, whose adapter call succeeded in the
\* last attempt; metadata.provider and metadata.model are that key's provider
\* and the resolved model. A route() call that throws raised no key's usedToday.
C15_UsageIncrement ==
    /\ RouteReturned =>
          /\ rt.keyId \in KeyIds
          /\ \A id \in KeyIds : UsageRaisedBy(id) = IF id = rt.keyId THEN 1 ELSE 0
          /\ rt.keyId \in rt.attemptedKeyIds
          /\ ~AttemptFailed(rt.trace[Len(rt.trace)])
          /\ rt.outs[Len(rt.trace)] = "ok"
          /\ rt.provider = keys[rt.keyId].provider
          /\ rt.model = IF rt.request.requestedModel \in {Undefined, EmptyString}
                        THEN keys[rt.keyId].defaultModel
                        ELSE rt.request.requestedModel
    /\ RouteThrew => \A id \in KeyIds : UsageRaisedBy(id) = 0

\* a call that returns at its second attempt, on a key other than the first
\* one tried, in a call that also reset a stale key
C15_Witness ==
    /\ RouteReturned
    /\ Len(rt.trace) = 2
    /\ Cardinality(rt.attemptedKeyIds) = 2
    /\ keys[rt.keyId].usedToday = rt.before[rt.keyId].usedToday + 1
    /\ \E id \in KeyIds : keys[id].resetDate # rt.before[id].resetDate

\* C16: route() ends by returning or by throwing a structured gateway error;
\* when it throws, the error is the last attempt's error if that one is
\* structured, and a NoEligibleKey error otherwise.
C16_StructuredOutcome ==
    RouteCalled =>
        /\ RouteReturned \/ RouteThrew
        /\ RouteThrew =>
              /\ rt.error.structured
              /\ Len(rt.trace) >= 1
              /\ LET last == rt.trace[Len(rt.trace)].error
                 IN  IF last.structured THEN rt.error = last
                     ELSE /\ rt.error.code = "NO_ELIGIBLE_KEY"
                          /\ rt.error.status = 429

\* retries exhausted on an error that is no gateway error: NoEligibleKey is thrown
C16_Witness ==
    /\ RouteThrew
    /\ Len(rt.trace) = maxRetries
    /\ ~rt.trace[Len(rt.trace)].error.structured
    /\ rt.error.code = "NO_ELIGIBLE_KEY"

\* C17: with the usage sink failing, route() ends as it does with the sink
\* working: the same outcome, error, key, store and counters; a successful
\* dispatch still returns with the key's usedToday raised, a terminal failure
\* still throws the routing error; only the log entry is missing.
C17_SinkFailureHarmless ==
    (RouteCalled /\ ~rt.sinkOk) =>
        /\ usageLog = rt.logBefore
        /\ RouteReturned => UsageRaisedBy(rt.keyId) = 1
        /\ RouteThrew /\ rt.trace[Len(rt.trace)].error.structured =>
              rt.error = rt.trace[Len(rt.trace)].error
        /\ \E ord \in Orders :
              LET up == route(rt.before, rt.countersBefore, rt.logBefore, rt.request,
                              rt.outs, TRUE, ord, rt.today, strategy)
              IN  /\ up.outcome = rt.outcome
                  /\ up.error = rt.error
                  /\ up.keyId = rt.keyId
                  /\ up.st.store = keys
                  /\ up.st.counters = rrCounter
                  /\ Len(up.st.log) = Len(rt.logBefore) + 1

\* the sink is down and the call returns at its second attempt
C17_Witness ==
    /\ RouteReturned
    /\ ~rt.sinkOk
    /\ Len(rt.trace) = 2
    /\ usageLog = rt.logBefore
    /\ UsageRaisedBy(rt.keyId) = 1

\* ------------------------------------------------------------------------
\* Properties of waitForJob
\* ------------------------------------------------------------------------
Waiters == {queue.waiters[k] : k \in 1..Len(queue.waiters)}

\* the job that was enqueued under the request id the waiter waits for
Awaited(w) == queue.jobs[JobOf(w.requestId)]

\* every event is delivered and the waiter's own look at the job is over
Quiet(w) == queue.events = <<>> /\ w.lookup = "done"

\* the job whose completion or failure settled the waiter
SettledBy(w) == queue.jobs[getJob(queue.jobs, w.job)]

\* C18: a waitForJob call on a request id that enqueueChatRequest returned
\* resolves with the result of the job enqueued under that id once the
\* worker has completed the job, unless the timeout came first: when the
\* job is completed, its event delivered and the waiter's look at the job
\* done, the waiter holds the job's result
C18_CompletedJobResolves ==
    \A w \in Waiters :
        (Awaited(w).state = "completed" /\ Quiet(w) /\ w.by # "timer")
            => (w.promise = "resolved" /\ w.value = Awaited(w).returnvalue)

\* C19: when timeoutMs have passed and the awaited job was neither completed
\* nor failed at that moment, the waiter is rejected by its timer, with an
\* error the caller takes for a timeout
C19_TimeoutRejects ==
    \A w \in Waiters :
        (w.elapsed /\ w.unfinishedAtT)
            => /\ w.promise = "rejected"
               /\ w.by = "timer"
               /\ isTimeoutRejection(w.value)

\* C20: a waiter that is settled has dropped its timer and its handlers, and
\* the job whose completion or failure settled it is the job enqueued under
\* the request id it waits for
C20_SettledByOwnJob ==
    \A w \in Waiters :
        /\ w.promise # "pending" => (~w.timer /\ ~w.handlers)
        /\ w.by \in {"event", "lookup"}
              => SettledBy(w).data.requestId = w.requestId

\* C29: when the job was already completed or failed at the waitForJob call,
\* the waiter is settled by the time its look at the job is done, without
\* its timer: resolved with the stored result of a completed job, rejected
\* with the failure reason of a failed job
C29_FallbackLookupSettles ==
    \A w \in Waiters :
        (w.finishedBefore /\ w.lookup = "done" /\ w.by # "timer")
            => /\ Awaited(w).state = "completed"
                    => (w.promise = "resolved"
                        /\ w.value = Awaited(w).returnvalue)
               /\ Awaited(w).state = "failed"
                    => (w.promise = "rejected"
                        /\ w.value = Error(Awaited(w).failedReason))

\* ------------------------------------------------------------------------
\* Properties of jobs run by the worker
\* ------------------------------------------------------------------------
Jobs == {queue.jobs[i] : i \in 1..Len(queue.jobs)}

\* the last route() call was made for the job
LastRouted(job) == RouteCalled /\ rt.request = job.data.request

\* the waiters on the request id of the job
WaitersOn(job) == {w \in Waiters : w.requestId = job.data.requestId}

\* C21: when route() throws a structured error of status < 500 in the
\* worker, the job is completed with success = false and the error text, it
\* is not handed to the worker again, and a waiter on it is resolved with that
\* result once the event is delivered and its look at the job is done
C21_ClientErrorCompletes ==
    \A job \in Jobs :
        (LastRouted(job) /\ RouteThrew /\ rt.error.structured
                /\ rt.error.status < 500)
            => /\ job.state = "completed"
               /\ job.returnvalue = [success |-> FALSE,
                                     error |-> messageOf(rt.error)]
               /\ \A w \in WaitersOn(job) :
                     (Quiet(w) /\ w.by # "timer")
                         => (w.promise = "resolved"
                             /\ w.value = job.returnvalue)

\* C22: of the errors route() throws in the worker, exactly the non-retryable
\* ones (structured, status in [400,499] except 429) end the job as a
\* completed failure result; after any other error the job is not completed
C22_OnlyNonRetryableCompletes ==
    \A job \in Jobs :
        (LastRouted(job) /\ RouteThrew)
            => (job.state = "completed" <=> NonRetryable(rt.error))

\* the adapter fails with status 500 at the first n-1 attempts and answers
\* at attempt n
FailsThenAnswers(outs, n) ==
    /\ \A a \in 1..(n - 1) : outs[a] = "500"
    /\ outs[n] = "ok"

\* C23: when the adapter fails with status 500 at the first n-1 attempts of
\* the route() call of a job and would answer at attempt n <= maxRetries,
\* route() makes n adapter calls and returns, the job is completed with
\* success = true and the key, provider and model route() returned, and a
\* waiter on the job is resolved with that result
C23_SucceedsAtAttemptN ==
    \A job \in Jobs : \A n \in 1..maxRetries :
        (LastRouted(job) /\ rt.request.requestedProvider = "auto"
                /\ FailsThenAnswers(rt.outs, n))
            => /\ RouteReturned
               /\ rt.chatCalls = n
               /\ job.state = "completed"
               /\ job.returnvalue =
                     [success |-> TRUE, response |-> job.data.requestId,
                      keyId |-> rt.keyId, provider |-> rt.provider,
                      model |-> rt.model]
               /\ \A w \in WaitersOn(job) :
                     (Quiet(w) /\ w.by # "timer")
                         => (w.promise = "resolved"
                             /\ w.value = job.returnvalue)

\* C24: the worker runs a job at most `attempts` times, and over all its runs
\* the adapter is called at most attempts * maxRetries times for the job
C24_StackedRetries ==
    \A job \in Jobs :
        /\ job.attemptsMade <= attempts
        /\ job.chatCalls <= attempts * maxRetries

\* a job that failed for good after every run of the worker used up the
\* retries of route() with adapter calls
C24_Witness ==
    \E job \in Jobs :
        /\ job.state = "failed"
        /\ job.attemptsMade = attempts
        /\ job.chatCalls = attempts * maxRetries

\* ------------------------------------------------------------------------
\* Properties of concurrent route() calls
\* ------------------------------------------------------------------------
CallList == {calls.list[k] : k \in 1..Len(calls.list)}

AllCallsOver == \A c \in CallList : c.pc \in {"returned", "threw"}

\* the calls that returned with the key
ReturnedWith(id) ==
    {k \in 1..Len(calls.list) :
        calls.list[k].pc = "returned" /\ calls.list[k].keyId = id}

\* C25: once every concurrent route() call is over, usedToday of each key is
\* its value before the calls plus the number of calls that returned with
\* that key
C25_NoLostIncrement ==
    AllCallsOver
        => \A id \in KeyIds :
              keys[id].usedToday =
                  calls.before[id].usedToday + Cardinality(ReturnedWith(id))

\* two calls selected the same key before either counted its usage, and both
\* returned
C25_Witness ==
    /\ AllCallsOver
    /\ \E id \in KeyIds :
          /\ Cardinality(ReturnedWith(id)) >= 2
          /\ \A k \in ReturnedWith(id) :
                calls.list[k].seen = calls.before[id].usedToday

\* ------------------------------------------------------------------------
\* Properties of error responses
\* ------------------------------------------------------------------------
\* C26: a request for which no key is eligible is answered with code
\* NO_ELIGIBLE_KEY and status 400, by route() through the error handler as
\* by routeWithKeys
C26_NoEligibleKeyStatus ==
    /\ routeWithKeysNoEligible.errorCode = "NO_ELIGIBLE_KEY"
    /\ routeWithKeysNoEligible.statusCode = 400
    /\ (RouteThrew /\ rt.eligible = <<>> /\ rt.selectCalls > 0
            /\ \A i \in 1..Len(rt.outs) : rt.outs[i] # "db")
          => /\ errorHandler(rt.error).code = "NO_ELIGIBLE_KEY"
             /\ errorHandler(rt.error).status = 400

\* ------------------------------------------------------------------------
\* Properties of enqueueChatRequest
\* ------------------------------------------------------------------------
\* C27: no two stored jobs have the same requestId, and the payload of a job
\* carries one requestId throughout, the one the job was added under
C27_UniqueRequestIds ==
    /\ \A i, j \in 1..Len(queue.jobs) :
          i # j => queue.jobs[i].data.requestId # queue.jobs[j].data.requestId
    /\ \A job \in Jobs :
          /\ job.data.request.requestId = job.data.requestId
          /\ job.name = job.data.requestId

\* C28: a job is stored under the requestId enqueueChatRequest returned for
\* it: looking that id up finds the job, and the events of the job carry it
C28_JobIdIsRequestId ==
    /\ \A i \in 1..Len(queue.jobs) :
          getJob(queue.jobs, queue.jobs[i].data.requestId) = i
    /\ \A e \in 1..Len(queue.events) :
          \E job \in Jobs :
              /\ job.id = queue.events[e].jobId
              /\ job.data.requestId = queue.events[e].jobId

\* ------------------------------------------------------------------------
\* Properties of the keys attempted within one route() call
\* ------------------------------------------------------------------------
\* the attempt was refused because the key selected had been attempted before
RepeatedKey(a) == a.error = GatewayError("PROVIDER_ERROR", 503)

\* the attempts of the call at which a key was selected that had not been
\* attempted before
FreshAttempts ==
    {i \in 1..Len(rt.trace) :
        /\ ~RepeatedKey(rt.trace[i])
        /\ rt.trace[i].error.code # "NO_ELIGIBLE_KEY"
        /\ rt.outs[i] # "db"}

NoStaleKey == \A id \in KeyIds : rt.before[id].resetDate = rt.today

\* the attempts of the call at which the adapter was called
Dispatches ==
    {i \in FreshAttempts : rt.trace[i].error.code # "MODEL_NOT_SUPPORTED"}

\* the first attempt of the call at which the adapter was called
FirstDispatch == CHOOSE i \in Dispatches : \A j \in Dispatches : i <= j

\* the key store answered every selection after the first dispatch
StoreAnswersAfter(d) == \A i \in (d + 1)..Len(rt.outs) : rt.outs[i] # "db"

NoKeyAt(a) == a.error = GatewayError("NO_ELIGIBLE_KEY", 429)

ModelRefusedAt(a) == a.error = GatewayError("MODEL_NOT_SUPPORTED", 400)

\* what ends a call whose adapter refuses the resolved model at attempt i: it
\* is the last attempt, no adapter is called at it, nothing is slept after it
\* and the call throws MODEL_NOT_SUPPORTED
AbortsAt(i) ==
    /\ i = Len(rt.trace)
    /\ rt.selectCalls = i
    /\ rt.chatCalls = Cardinality(Dispatches)
    /\ i \notin Dispatches
    /\ \A j \in 1..Len(rt.sleeps) : rt.sleeps[j].after < i - 1
    /\ RouteThrew
    /\ rt.error = GatewayError("MODEL_NOT_SUPPORTED", 400)

\* C33 as stated: a route() call whose adapter refuses the resolved model
\* stops at that attempt with MODEL_NOT_SUPPORTED and leaves usedToday of
\* every key as it was before the call
C33_ModelRefusedAborts ==
    RouteCalled =>
        \A i \in 1..Len(rt.trace) :
            ModelRefusedAt(rt.trace[i])
                => /\ AbortsAt(i)
                   /\ \A id \in KeyIds : keys[id].usedToday = rt.before[id].usedToday

\* C33 amended: a route() call whose adapter refuses the resolved model stops
\* at that attempt with MODEL_NOT_SUPPORTED and raises usedToday of no key;
\* usedToday changes only where the selection reset a stale key to 0
C33_ModelRefusedAbortsNoRaise ==
    RouteCalled =>
        \A i \in 1..Len(rt.trace) :
            ModelRefusedAt(rt.trace[i])
                => /\ AbortsAt(i)
                   /\ \A id \in KeyIds :
                         \/ keys[id].usedToday = rt.before[id].usedToday
                         \/ /\ rt.before[id].resetDate < rt.today
                            /\ keys[id].usedToday = 0
                            /\ keys[id].resetDate = rt.today

\* the adapter refused the model at the first attempt of a call whose
\* selection had reset a stale key
C33_Witness ==
    /\ RouteThrew
    /\ Len(rt.trace) = 1
    /\ ModelRefusedAt(rt.trace[1])
    /\ rt.sleeps = <<>>
    /\ \E id \in KeyIds : rt.before[id].resetDate < rt.today /\ keys[id].usedToday = 0

\* ------------------------------------------------------------------------
\* Properties of the usage log
\* ------------------------------------------------------------------------
\* the entry the call appended, when it appended exactly one
LoggedEntry == usageLog[Len(usageLog)]

LimitedKeys == {id \in KeyIds : keys[id].dailyLimit # Null}

\* the calls that hold the key between its selection and their return
DispatchedWith(id) ==
    {k \in 1..Len(calls.list) :
        calls.list[k].keyId = id /\ calls.list[k].pc \in {"chat", "count", "log", "returned"}}

\* C35 as stated: usedToday of a key with a daily limit never exceeds the
\* limit, whatever the interleaving of the concurrent route() calls
C35_NeverAboveLimit ==
    \A id \in LimitedKeys : keys[id].usedToday <= keys[id].dailyLimit

\* C35 amended: the limit is enforced at selection only. A call dispatches
\* with a limited key only if the record it selected showed usedToday below
\* the limit, and usedToday exceeds the limit by at most the number of
\* concurrent calls less one
C35_LimitCheckedAtSelection ==
    \A id \in LimitedKeys :
        /\ \A k \in DispatchedWith(id) : calls.list[k].seen < keys[id].dailyLimit
        /\ keys[id].usedToday <=
              keys[id].dailyLimit +
                  (IF Len(calls.list) > 1 THEN Len(calls.list) - 1 ELSE 0)

\* two calls selected the key that had one dispatch left before either
\* counted its usage: both returned and usedToday is one above the limit
C35_Witness ==
    /\ AllCallsOver
    /\ \E id \in LimitedKeys :
          /\ Cardinality(ReturnedWith(id)) = 2
          /\ keys[id].usedToday = keys[id].dailyLimit + 1

\* ------------------------------------------------------------------------
\* Properties of the lazy reset under concurrent route() calls
\* ------------------------------------------------------------------------
\* the keys whose record was stale before the calls and has been reset
ResetKeys ==
    {id \in KeyIds : calls.before[id].resetDate < today /\ keys[id].resetDate = today}

\* C36: once every concurrent route() call made after a day rollover is
\* over, usedToday of each key that was reset is the number of calls that
\* returned with that key: no lazy reset has erased a usage counted after the
\* rollover
C36_ResetKeepsUsage ==
    AllCallsOver
        => \A id \in ResetKeys : keys[id].usedToday = Cardinality(ReturnedWith(id))

\* ------------------------------------------------------------------------
\* Properties of the advisory key locks
\* ------------------------------------------------------------------------
\* the callers that acquired the lock of the key and have not released it
Holders(id) == {c \in Callers : id \in locks.acquired[c]}

\* C37: the lock of a key is exclusive: no two callers have acquired it
\* without having released it, and no release removes a lock key that
\* another caller had set
C37_LockExclusive ==
    /\ \A id \in LockKeys : Cardinality(Holders(id)) <= 1
    /\ locks.last.removed \in {"free", locks.last.by}

\* ------------------------------------------------------------------------
\* Properties of what selectKey writes
\* ------------------------------------------------------------------------
\* C38: a selectKey call changes the key store only by resetting the stale
\* keys of its candidate query to usedToday = 0 and resetDate = today: every
\* other key is stored as before, no usedToday is raised, and under
\* exhaust-first the round-robin counters are as before (that only a
\* successful dispatch of route() raises usedToday is C15)
C38_SelectKeyWritesResetOnly ==
    Called =>
        /\ \A id \in KeyIds :
              IF id \in Range(sel.listing) /\ Stale(id)
              THEN keys[id] = [Stored(id) EXCEPT !.usedToday = 0,
                                                 !.resetDate = sel.today]
              ELSE keys[id] = Stored(id)
        /\ \A id \in KeyIds : keys[id].usedToday <= Stored(id).usedToday
        /\ strategy = "exhaust-first" => rrCounter = sel.countersBefore

\* an exhaust-first call that reset a stale candidate with usage while a
\* stale key outside its candidate query kept its usage
C38_Witness ==
    /\ Called
    /\ strategy = "exhaust-first"
    /\ \E id \in Range(sel.listing) :
          Stale(id) /\ Stored(id).usedToday > 0 /\ keys[id].usedToday = 0
    /\ \E id \in KeyIds \ Range(sel.listing) :
          Stale(id) /\ keys[id] = Stored(id)

\* ------------------------------------------------------------------------
\* Properties of jobs whose every run fails
\* ------------------------------------------------------------------------
\* C39: a job whose runs all re-raise is run at most `attempts` times and
\* then is failed; a waiter on it is never resolved with a result, and once
\* the events are delivered and its look at the job is done it is rejected
\* with the failure reason, which the caller does not take for a timeout
C39_FailedJobRejects ==
    \A job \in Jobs :
        /\ job.attemptsMade <= attempts
        /\ job.state = "failed"
              => /\ job.attemptsMade = attempts
                 /\ \A w \in WaitersOn(job) :
                       /\ w.promise # "resolved"
                       /\ (Quiet(w) /\ w.by # "timer")
                             => /\ w.promise = "rejected"
                                /\ w.value = Error(job.failedReason)
                                /\ ~isTimeoutRejection(w.value)

\* ------------------------------------------------------------------------
\* Properties of answered upstream calls
\* ------------------------------------------------------------------------
\* the adapter was called at attempt i and answered; with "incr" the usage
\* update that follows is rejected by the key store
Answered(i) == i \in Dispatches /\ rt.outs[i] \in {"ok", "incr"}

\* C40: an attempt of route() at which the adapter answered is the last
\* attempt, and route() returns with the key of that attempt, also when the
\* usage update after the answer fails
C40_AnswerNeverDiscarded ==
    RouteCalled =>
        \A i \in 1..Len(rt.trace) :
            Answered(i)
                => /\ i = Len(rt.trace)
                   /\ RouteReturned
                   /\ rt.keyId = rt.chatKeys[Len(rt.chatKeys)]

====
